---- MODULE Spec2Model ----
(***************************************************************************)
(* Model of lttnganalyses: the period expression matcher and validator     *)
(* (core/period.py), the period argument parser (cli/period_parsing.py)    *)
(* and the analysis dispatcher (core/analysis.py, core/sched.py).          *)
(*                                                                         *)
(* Python semantics are kept statement by statement.  A call whose         *)
(* arguments do not fit the callee's signature raises TypeError, a name    *)
(* that is not bound raises NameError / UnboundLocalError, a missing       *)
(* attribute raises AttributeError; the exception leaves the handler at    *)
(* that statement and is recorded in `exc`.  An uncaught exception ends    *)
(* the program: no further call is made on the analysis.                   *)
(*                                                                         *)
(* core/analysis.py lines 89-91: the `if` of the end-of-period loop has no *)
(* body in the source.  It is modelled as written: its condition is        *)
(* evaluated and no statement is executed when it holds.                   *)
(***************************************************************************)
EXTENDS Integers, Sequences, FiniteSets, TLC

VARIABLES
    conf,           \* AnalysisConfig, fixed after construction
    started,        \* Analysis.started
    ended,          \* Analysis.ended
    last_event_ts,  \* Analysis._last_event_ts
    periods,        \* Analysis._periods (set of PeriodData objects)
    next_id,        \* identity of the next PeriodData object
    ticks,          \* 'tick' notifications sent to the CLI, in order
    state_cbs,      \* periods with callbacks registered in the state layer
    exc,            \* exception that escaped the last call ("none" if none)
    phase,          \* driver: "new", "running", "done"
    begun,          \* driver: begin_analysis has been called
    first_event,    \* driver: event given to begin_analysis, still to process
    delivered,      \* driver: timestamps of the events handed to process_event
    last_call,      \* driver: the last call made on the analysis
    parser,         \* a call of parse_period_arg: its argument and its outcome
    matcher,        \* a _Matcher: expression, contexts and the result (matches)
    sched,          \* a period of a SchedAnalysis and the notifications it is sent
    cli             \* an IrqAnalysisCommand: arguments, result tables, last call

vars == <<conf, started, ended, last_event_ts, periods, next_id, ticks,
          state_cbs, exc, phase, begun, first_event, delivered, last_call,
          parser, matcher, sched, cli>>

-----------------------------------------------------------------------------
(* Bounds *)

MaxTs == 3
MaxEvents == 3

\* Python None for the timestamp-valued attributes (timestamps are >= 0)
None == -1

Timestamps == 0..MaxTs

-----------------------------------------------------------------------------
(* Values, events, contexts *)

\* a field value: kind "int", "float", "str" or "none" (Python None);
\* numbers are kept in tenths (n = 10 * value), strings in s
IntValue(i) == [k |-> "int", n |-> 10 * i, s |-> ""]
FloatValue(tenths) == [k |-> "float", n |-> tenths, s |-> ""]
StrValue(str) == [k |-> "str", n |-> 0, s |-> str]
NoneValue == [k |-> "none", n |-> 0, s |-> ""]

EventNames == {"a", "b"}
FieldNames == {"x"}
FieldValues == {NoneValue, IntValue(1)}

\* an event: timestamp, name and payload fields (an absent field is NoneValue)
Events == [timestamp : Timestamps, name : EventNames,
           fields : [FieldNames -> FieldValues]]

NoEvent == [timestamp |-> None, name |-> "", fields |-> [f \in FieldNames |-> NoneValue]]

MatchContext(cur_event) == [is_none |-> FALSE, cur_event |-> cur_event]
NoContext == [is_none |-> TRUE, cur_event |-> NoEvent]

-----------------------------------------------------------------------------
(* Expressions *)

LogicalNotExpression(expr) == [type |-> "LogicalNot", expr |-> expr]
LogicalAndExpression(lh, rh) == [type |-> "LogicalAnd", lh_expr |-> lh, rh_expr |-> rh]
EqExpression(lh, rh) == [type |-> "Eq", lh_expr |-> lh, rh_expr |-> rh]
LtExpression(lh, rh) == [type |-> "Lt", lh_expr |-> lh, rh_expr |-> rh]
LtEqExpression(lh, rh) == [type |-> "LtEq", lh_expr |-> lh, rh_expr |-> rh]
GtExpression(lh, rh) == [type |-> "Gt", lh_expr |-> lh, rh_expr |-> rh]
GtEqExpression(lh, rh) == [type |-> "GtEq", lh_expr |-> lh, rh_expr |-> rh]
NumberExpression(tenths) == [type |-> "Number", value |-> FloatValue(tenths)]
StringExpression(str) == [type |-> "String", value |-> StrValue(str)]
EventFieldExpression(is_begin, dyn_scope, name) ==
    [type |-> "EventField", is_begin |-> is_begin, dyn_scope |-> dyn_scope, name |-> name]
EventNameExpression(is_begin) == [type |-> "EventName", is_begin |-> is_begin]

CompTypes == {"Eq", "Lt", "LtEq", "Gt", "GtEq"}

PeriodDefinition(name, begin_expr, end_expr) ==
    [name |-> name, begin_expr |-> begin_expr, end_expr |-> end_expr]

-----------------------------------------------------------------------------
(* core/period.py: _Matcher.  A match result is "T", "F" or the name of    *)
(* the exception the evaluation raises.                                    *)

IsNumber(v) == v.k \in {"int", "float"}

\* Python's order on str, over the strings of the model
SortedStrings == <<"", "a", "b", "c">>
StrRank(str) == CHOOSE i \in 1..Len(SortedStrings) : SortedStrings[i] = str

\* int(x) for a float x: truncation toward zero
IntOfFloat(tenths) ==
    IF tenths >= 0 THEN (tenths \div 10) * 10 ELSE -(((-tenths) \div 10) * 10)

\* lh == rh
PyEq(lh, rh) ==
    IF IsNumber(lh) /\ IsNumber(rh) THEN lh.n = rh.n
    ELSE IF lh.k = "str" /\ rh.k = "str" THEN lh.s = rh.s
    ELSE lh.k = "none" /\ rh.k = "none"

\* lh < rh, defined between two numbers or two strings only
PyLt(lh, rh) ==
    IF IsNumber(lh) THEN lh.n < rh.n ELSE StrRank(lh.s) < StrRank(rh.s)

Orderable(lh, rh) ==
    \/ IsNumber(lh) /\ IsNumber(rh)
    \/ lh.k = "str" /\ rh.k = "str"

Bool(b) == IF b THEN "T" ELSE "F"

\* the comparison functions of _Matcher.__init__
compfn(op, lh, rh) ==
    IF op = "Eq" THEN Bool(PyEq(lh, rh))
    ELSE IF ~Orderable(lh, rh) THEN "TypeError"
    ELSE IF op = "Lt" THEN Bool(PyLt(lh, rh))
    ELSE IF op = "LtEq" THEN Bool(PyLt(lh, rh) \/ PyEq(lh, rh))
    ELSE IF op = "Gt" THEN Bool(PyLt(rh, lh))
    ELSE Bool(PyLt(rh, lh) \/ PyEq(lh, rh))

_get_context(is_begin, cur_context, begin_context) ==
    IF is_begin /\ begin_context.is_none
    THEN [exc |-> "AssertionError", context |-> NoContext]
    ELSE [exc |-> "none", context |-> IF is_begin THEN begin_context ELSE cur_context]

\* Event.field_with_scope: the fields of the model's events are payload fields
field_with_scope(ev, name, dyn_scope) ==
    IF dyn_scope = "EP" /\ name \in DOMAIN ev.fields THEN ev.fields[name] ELSE NoneValue

\* variant: the name is always read from the current event
_event_name_matches_cur(expr, cur_context, begin_context) ==
    IF expr.rh_expr.type \notin {"Number", "String"} THEN "AttributeError"
    ELSE Bool(expr.rh_expr.value.k = "str"
              /\ cur_context.cur_event.name = expr.rh_expr.value.s)

_event_name_matches(expr, cur_context, begin_context) ==
    LET c == _get_context(expr.lh_expr.is_begin, cur_context, begin_context)
    IN  IF c.exc # "none" THEN c.exc
        \* only the literals have a value attribute
        ELSE IF expr.rh_expr.type \notin {"Number", "String"} THEN "AttributeError"
        ELSE Bool(expr.rh_expr.value.k = "str"
                  /\ c.context.cur_event.name = expr.rh_expr.value.s)

_get_event_field_from_expr(expr, cur_context, begin_context) ==
    LET c == _get_context(expr.is_begin, cur_context, begin_context)
        ev == c.context.cur_event
    IN  IF c.exc # "none" THEN [exc |-> c.exc, value |-> NoneValue]
        ELSE IF expr.dyn_scope = "AUTO"
        THEN [exc |-> "none",
              value |-> IF expr.name \in DOMAIN ev.fields
                        THEN ev.fields[expr.name] ELSE NoneValue]
        ELSE [exc |-> "none", value |-> field_with_scope(ev, expr.name, expr.dyn_scope)]

_comp_expr_matches(op, expr, cur_context, begin_context) ==
    IF expr.lh_expr.type = "EventName"
    THEN _event_name_matches(expr, cur_context, begin_context)
    ELSE IF expr.lh_expr.type # "EventField" THEN "AssertionError"
    ELSE
    LET lh == _get_event_field_from_expr(expr.lh_expr, cur_context, begin_context)
        lh_field_value == lh.value
    IN  IF lh.exc # "none" THEN lh.exc
        ELSE IF expr.rh_expr.type \in {"Number", "String"}
        THEN LET rh_value ==
                     IF lh_field_value.k = "int" /\ expr.rh_expr.value.k = "float"
                     THEN [k |-> "int", n |-> IntOfFloat(expr.rh_expr.value.n), s |-> ""]
                     ELSE expr.rh_expr.value
             IN  IF lh_field_value.k # rh_value.k THEN "F"
                 ELSE compfn(op, lh_field_value, expr.rh_expr.value)
        ELSE IF expr.rh_expr.type = "EventField"
        THEN LET rh == _get_event_field_from_expr(expr.rh_expr, cur_context, begin_context)
             IN  IF rh.exc # "none" THEN rh.exc
                 ELSE compfn(op, lh_field_value, rh.value)
        ELSE "F"

\* variant: both operands are evaluated before they are combined
_and_expr_matches_eager(lh, rh) ==
    IF rh \notin {"T", "F"} THEN rh ELSE IF lh = "T" THEN rh ELSE lh

\* lh and rh: rh is the outcome of evaluating the right operand, which takes
\* place only when the left operand matched
_and_expr_matches(lh, rh) == IF lh = "T" THEN rh ELSE lh

\* variant: the result of the operand, not inverted
_not_expr_matches_same(r) == r

\* not r; an exception raised by the operand propagates
_not_expr_matches(r) == IF r = "T" THEN "F" ELSE IF r = "F" THEN "T" ELSE r

RECURSIVE _expr_matches(_, _, _)
_expr_matches(expr, cur_context, begin_context) ==
    IF expr.type = "LogicalAnd"
    THEN _and_expr_matches(_expr_matches(expr.lh_expr, cur_context, begin_context),
                           _expr_matches(expr.rh_expr, cur_context, begin_context))
    ELSE IF expr.type = "LogicalNot"
    THEN _not_expr_matches(_expr_matches(expr.expr, cur_context, begin_context))
    ELSE IF expr.type \in CompTypes
    THEN _comp_expr_matches(expr.type, expr, cur_context, begin_context)
    ELSE "KeyError"

expr_matches(expr, cur_context, begin_context) ==
    _expr_matches(expr, cur_context, begin_context)

-----------------------------------------------------------------------------
(* core/period.py: ExpressionValidator.  The outcome is "none" or the name  *)
(* of the exception raised.                                                *)

_validate_field(field_expr, is_begin) ==
    IF is_begin /\ field_expr.is_begin THEN "IllegalExpression" ELSE "none"

_validate_comp(comp_expr, is_begin) ==
    LET lh == IF comp_expr.lh_expr.type = "EventField"
              THEN _validate_field(comp_expr.lh_expr, is_begin) ELSE "none"
    IN  IF lh # "none" THEN lh
        ELSE IF comp_expr.rh_expr.type = "EventField"
        THEN _validate_field(comp_expr.rh_expr, is_begin)
        ELSE "none"

RECURSIVE _validate(_, _)
_validate(expr, is_begin) ==
    IF expr.type = "LogicalNot" THEN _validate(expr.expr, is_begin)
    ELSE IF expr.type = "LogicalAnd"
    THEN LET lh == _validate(expr.lh_expr, is_begin)
         IN  IF lh # "none" THEN lh ELSE _validate(expr.rh_expr, is_begin)
    ELSE IF expr.type \in CompTypes THEN _validate_comp(expr, is_begin)
    ELSE "none"

ExpressionValidator(expr, is_begin) == _validate(expr, is_begin)

-----------------------------------------------------------------------------
(* cli/period_parsing.py.  The argument is kept as the sequence of its     *)
(* lexemes (the grammar skips the white space between them):               *)
(*   "lit"     a literal of the grammar (":", "&&", "$evt.", "==", ...)    *)
(*   "word"    a run of letters (a period name or an identifier)           *)
(*   "quoted"  a quoted string, s is its content                           *)
(*   "num"     a run of the characters of a number, cs are its characters  *)

Lit(str) == [t |-> "lit", s |-> str, cs |-> <<>>]
Word(str) == [t |-> "word", s |-> str, cs |-> <<>>]
Quoted(str) == [t |-> "quoted", s |-> str, cs |-> <<>>]
Num(cs) == [t |-> "num", s |-> "", cs |-> cs]

nums == <<"0", "1", "2", "3", "4", "5", "6", "7", "8", "9">>
IsDigit(c) == \E i \in 1..Len(nums) : nums[i] = c
DigitValue(c) == (CHOOSE i \in 1..Len(nums) : nums[i] = c) - 1

\* length of the longest run of digits of cs that starts at position i
RECURSIVE DigitRun(_, _)
DigitRun(cs, i) ==
    IF i <= Len(cs) /\ IsDigit(cs[i]) THEN 1 + DigitRun(cs, i + 1) ELSE 0

\* pp.Word('+-' + pp.nums, pp.nums) at position i: the position after it, 0 if
\* it does not match
SignedWord(cs, i) ==
    IF i <= Len(cs) /\ (cs[i] \in {"+", "-"} \/ IsDigit(cs[i]))
    THEN i + 1 + DigitRun(cs, i + 1) ELSE 0

\* _number: the position after the longest prefix of cs the grammar takes as a
\* number, 0 if there is none
_number(cs) ==
    LET a == SignedWord(cs, 1)
        b == IF a # 0 /\ a <= Len(cs) /\ cs[a] = "."
             THEN a + 1 + DigitRun(cs, a + 1) ELSE a
        c == IF b # 0 /\ b <= Len(cs) /\ cs[b] \in {"e", "E"}
                  /\ SignedWord(cs, b + 1) # 0
             THEN SignedWord(cs, b + 1) ELSE b
    IN  c

\* the position of the exponent mark of cs, 0 if there is none
ExpMark(cs) ==
    IF \E i \in 1..Len(cs) : cs[i] \in {"e", "E"}
    THEN CHOOSE i \in 1..Len(cs) : cs[i] \in {"e", "E"} ELSE 0

Mantissa(cs) == IF ExpMark(cs) = 0 THEN cs ELSE SubSeq(cs, 1, ExpMark(cs) - 1)
Exponent(cs) == IF ExpMark(cs) = 0 THEN <<>> ELSE SubSeq(cs, ExpMark(cs) + 1, Len(cs))

HasDigit(cs) == \E i \in 1..Len(cs) : IsDigit(cs[i])

\* the value of the digits of cs (other characters skipped), as a natural
RECURSIVE Decimal(_, _)
Decimal(cs, acc) ==
    IF cs = <<>> THEN acc
    ELSE Decimal(Tail(cs), IF IsDigit(Head(cs)) THEN 10 * acc + DigitValue(Head(cs))
                           ELSE acc)

RECURSIVE Pow10(_)
Pow10(n) == IF n = 0 THEN 1 ELSE 10 * Pow10(n - 1)

\* float(str) of a string the grammar takes as a number: it raises ValueError
\* when the mantissa or a present exponent has no digit.  The value is kept
\* in tenths: the numbers of the model have at most one fractional digit and
\* no negative exponent.
float(cs) ==
    LET m == Mantissa(cs)
        e == Exponent(cs)
        dot == IF \E i \in 1..Len(m) : m[i] = "."
               THEN CHOOSE i \in 1..Len(m) : m[i] = "." ELSE 0
        int_part == IF dot = 0 THEN m ELSE SubSeq(m, 1, dot - 1)
        frac_part == IF dot = 0 THEN <<>> ELSE SubSeq(m, dot + 1, Len(m))
        tenths == 10 * Decimal(int_part, 0)
                  + (IF frac_part = <<>> THEN 0 ELSE DigitValue(frac_part[1]))
        scaled == tenths * Pow10(Decimal(e, 0))
    IN  IF ~HasDigit(m) \/ (ExpMark(cs) # 0 /\ ~HasDigit(e))
        THEN [exc |-> "ValueError", value |-> 0]
        ELSE [exc |-> "none",
              value |-> IF m[1] = "-" THEN -scaled ELSE scaled]

\* a reference to a field or to the name of an event, as the grammar groups it
Ref(begin_scope, dyn_scope, id) ==
    [begin_scope |-> begin_scope, dyn_scope |-> dyn_scope, id |-> id]
NoRef == Ref(FALSE, "", "")

DynScope ==
    [str \in {"$pkt_header.", "$pkt_ctx.", "$header.", "$stream_ctx.", "$ctx.",
              "$payload."} |->
        CASE str = "$pkt_header." -> "TPH"
          [] str = "$pkt_ctx." -> "SPC"
          [] str = "$header." -> "SEH"
          [] str = "$stream_ctx." -> "SEC"
          [] str = "$ctx." -> "EC"
          [] str = "$payload." -> "EP"]

IsLit(arg, i, str) == i <= Len(arg) /\ arg[i] = Lit(str)

NoMatch == [ok |-> FALSE, next |-> 0, res |-> NoRef]

\* _event_field at lexeme i
_event_field(arg, i) ==
    LET j == IF IsLit(arg, i, "$begin.") THEN i + 1 ELSE i
        dyn == j + 1 <= Len(arg) /\ arg[j + 1].t = "lit"
               /\ arg[j + 1].s \in DOMAIN DynScope
        k == IF dyn THEN j + 2 ELSE j + 1
    IN  IF IsLit(arg, j, "$evt.") /\ k <= Len(arg) /\ arg[k].t = "word"
        THEN [ok |-> TRUE, next |-> k + 1,
              res |-> Ref(j # i, IF dyn THEN arg[j + 1].s ELSE "", arg[k].s)]
        ELSE NoMatch

\* _event_name at lexeme i
_event_name(arg, i) ==
    LET j == IF IsLit(arg, i, "$begin.") THEN i + 1 ELSE i
    IN  IF IsLit(arg, j, "$evt.") /\ IsLit(arg, j + 1, "$name")
        THEN [ok |-> TRUE, next |-> j + 2, res |-> Ref(j # i, "", "$name")]
        ELSE NoMatch

_relop == {"==", "!=", "<=", ">=", "<", ">"}
_eqop == {"==", "!="}

IsOp(arg, i, ops) == i <= Len(arg) /\ arg[i].t = "lit" /\ arg[i].s \in ops

\* a group of the parse results: getName is its results name
Group(getName, lh, op, number, quoted_string, rh) ==
    [is_str |-> FALSE, getName |-> getName, lh |-> lh, op |-> op,
     number |-> number, quoted_string |-> quoted_string, rh |-> rh]
\* a plain string among the parse results
Str(str) == [is_str |-> TRUE, getName |-> "", lh |-> NoRef, op |-> str,
             number |-> <<>>, quoted_string |-> "", rh |-> NoRef]

NoComp == [ok |-> FALSE, next |-> 0, res |-> Str("")]

_name_comp_expr(arg, i) ==
    LET n == _event_name(arg, i)
    IN  IF n.ok /\ IsOp(arg, n.next, _eqop)
           /\ n.next + 1 <= Len(arg) /\ arg[n.next + 1].t = "quoted"
        THEN [ok |-> TRUE, next |-> n.next + 2,
              res |-> Group("name-comp-expr", n.res, arg[n.next].s, <<>>,
                            arg[n.next + 1].s, NoRef)]
        ELSE NoComp

_number_comp_expr(arg, i) ==
    LET f == _event_field(arg, i)
    IN  IF f.ok /\ IsOp(arg, f.next, _relop)
           /\ f.next + 1 <= Len(arg) /\ arg[f.next + 1].t = "num"
           /\ _number(arg[f.next + 1].cs) = Len(arg[f.next + 1].cs) + 1
        THEN [ok |-> TRUE, next |-> f.next + 2,
              res |-> Group("number-comp-expr", f.res, arg[f.next].s,
                            arg[f.next + 1].cs, "", NoRef)]
        ELSE NoComp

_string_comp_expr(arg, i) ==
    LET f == _event_field(arg, i)
    IN  IF f.ok /\ IsOp(arg, f.next, _eqop)
           /\ f.next + 1 <= Len(arg) /\ arg[f.next + 1].t = "quoted"
        THEN [ok |-> TRUE, next |-> f.next + 2,
              res |-> Group("string-comp-expr", f.res, arg[f.next].s, <<>>,
                            arg[f.next + 1].s, NoRef)]
        ELSE NoComp

_field_comp_expr(arg, i) ==
    LET lh == _event_field(arg, i)
        rh == _event_field(arg, lh.next + 1)
    IN  IF lh.ok /\ IsOp(arg, lh.next, _relop) /\ rh.ok
        THEN [ok |-> TRUE, next |-> rh.next,
              res |-> Group("field-comp-expr", lh.res, arg[lh.next].s, <<>>, "",
                            rh.res)]
        ELSE NoComp

\* pp.MatchFirst: the first of the alternatives that matches
MatchFirst(a, b, c, d) ==
    IF a.ok THEN a ELSE IF b.ok THEN b ELSE IF c.ok THEN c ELSE d

\* the alternatives of _conj_exprs
_comp_expr(arg, i) ==
    MatchFirst(_name_comp_expr(arg, i), _number_comp_expr(arg, i),
               _string_comp_expr(arg, i), _field_comp_expr(arg, i))

\* the repetition of delimitedList: ('&&' comparison)*, from lexeme i;
\* comp is the outcome of matching a comparison after the delimiter
RECURSIVE _conj_more(_, _, _)
RECURSIVE ZeroOrMore(_, _, _, _)
ZeroOrMore(arg, i, res, comp) ==
    IF IsLit(arg, i, "&&") /\ comp.ok
    THEN _conj_more(arg, comp.next, Append(res, comp.res))
    ELSE [ok |-> TRUE, next |-> i, res |-> res]
_conj_more(arg, i, res) == ZeroOrMore(arg, i, res, _comp_expr(arg, i + 1))

\* pp.delimitedList, given the outcome of matching its first comparison
delimitedList(arg, first) ==
    IF first.ok THEN _conj_more(arg, first.next, <<first.res>>)
    ELSE [ok |-> FALSE, next |-> 0, res |-> <<>>]

\* _conj_exprs = pp.delimitedList(comparison, '&&') at lexeme i
_conj_exprs(arg, i) == delimitedList(arg, _comp_expr(arg, i))

\* a lexeme pp.Word(pp.alphanums + '_-') takes whole
_period_name(arg, i) ==
    /\ i <= Len(arg)
    /\ \/ arg[i].t = "word"
       \/ /\ arg[i].t = "num"
          /\ \A n \in 1..Len(arg[i].cs) :
                IsDigit(arg[i].cs[n]) \/ arg[i].cs[n] \in {"-", "e", "E"}

\* _period.parseString(arg, parseAll=True).  In the results, 'end-expr' names
\* the whole optional clause, the ':' that opens it included.
NoParseResults ==
    [exc |-> "ParseException", has_name |-> FALSE, period_name |-> "",
     begin_expr |-> <<>>, has_end |-> FALSE, end_expr |-> <<>>]

\* the results, given the outcomes of the parts: named, the optional period
\* name matched; begin, the begin clause after the ':'; end, the clause after
\* a second ':'
ParseResults(arg, named, begin, end) ==
    LET has_end == begin.ok /\ IsLit(arg, begin.next, ":") /\ end.ok
    IN  IF /\ IsLit(arg, IF named THEN 2 ELSE 1, ":")
           /\ begin.ok
           /\ (IF has_end THEN end.next ELSE begin.next) = Len(arg) + 1
        THEN [exc |-> "none", has_name |-> named,
              period_name |-> IF named THEN arg[1].s ELSE "",
              begin_expr |-> begin.res, has_end |-> has_end,
              end_expr |-> IF has_end THEN <<Str(":")>> \o end.res ELSE <<>>]
        ELSE NoParseResults

EndClause(arg, named, begin) ==
    ParseResults(arg, named, begin, _conj_exprs(arg, begin.next + 1))

BeginClause(arg, named) ==
    EndClause(arg, named, _conj_exprs(arg, IF named THEN 3 ELSE 2))

_period(arg) == BeginClause(arg, _period_name(arg, 1))

_OP_TO_EXPR(op, lh, rh) ==
    CASE op = "==" -> EqExpression(lh, rh)
      [] op = "!=" -> LogicalNotExpression(EqExpression(lh, rh))
      [] op = "<" -> LtExpression(lh, rh)
      [] op = "<=" -> LtEqExpression(lh, rh)
      [] op = ">" -> GtExpression(lh, rh)
      [] op = ">=" -> GtEqExpression(lh, rh)

_res_event_name_to_event_name_expression(res_ev_name) ==
    EventNameExpression(res_ev_name.begin_scope)

_res_quoted_string_to_string_expression(res_quoted_string) ==
    StringExpression(res_quoted_string)

\* the expression, or the ValueError of float()
_res_number_to_number_expression(res_number) ==
    [exc |-> float(res_number).exc,
     expr |-> NumberExpression(float(res_number).value)]

_res_field_to_field_expression(res_field) ==
    EventFieldExpression(res_field.begin_scope,
                         IF res_field.dyn_scope # "" THEN DynScope[res_field.dyn_scope]
                         ELSE "AUTO",
                         res_field.id)

_create_binary_op(eqop, lh, rh) == _OP_TO_EXPR(eqop, lh, rh)

\* Python None where an expression is expected
NoExpression == [type |-> "None"]

\* the expression of one item of the results (the body of the loop of
\* _parse_results_to_expression)
ItemExpression(res_expr) ==
    IF res_expr.is_str THEN [exc |-> "AttributeError", expr |-> NoExpression]
    ELSE IF res_expr.getName = "name-comp-expr"
    THEN [exc |-> "none",
          expr |-> _create_binary_op(res_expr.op,
                       _res_event_name_to_event_name_expression(res_expr.lh),
                       _res_quoted_string_to_string_expression(res_expr.quoted_string))]
    ELSE IF res_expr.getName = "number-comp-expr"
    THEN LET number_expr == _res_number_to_number_expression(res_expr.number)
         IN  [exc |-> number_expr.exc,
              expr |-> _create_binary_op(res_expr.op,
                           _res_field_to_field_expression(res_expr.lh),
                           number_expr.expr)]
    ELSE IF res_expr.getName = "string-comp-expr"
    THEN [exc |-> "none",
          expr |-> _create_binary_op(res_expr.op,
                       _res_field_to_field_expression(res_expr.lh),
                       _res_quoted_string_to_string_expression(res_expr.quoted_string))]
    ELSE [exc |-> "none",
          expr |-> _create_binary_op(res_expr.op,
                       _res_field_to_field_expression(res_expr.lh),
                       _res_field_to_field_expression(res_expr.rh))]

RECURSIVE _parse_results_loop(_, _, _)
_parse_results_loop(res_conj_exprs, i, cur_expr) ==
    IF i > Len(res_conj_exprs) THEN [exc |-> "none", expr |-> cur_expr]
    ELSE LET item == ItemExpression(res_conj_exprs[i])
         IN  IF item.exc # "none" THEN [exc |-> item.exc, expr |-> NoExpression]
             ELSE _parse_results_loop(res_conj_exprs, i + 1,
                      IF cur_expr = NoExpression THEN item.expr
                      ELSE LogicalAndExpression(cur_expr, item.expr))

_parse_results_to_expression(res_conj_exprs) ==
    _parse_results_loop(res_conj_exprs, 1, NoExpression)

\* the outcome of parse_period_arg: the exception raised, or the definition
NoDefinition == PeriodDefinition("", NoExpression, NoExpression)
Raised(e) == [exc |-> e, def |-> NoDefinition]

\* lines 160-163, given the outcomes of the two validations
Validated(name, begin_expr, end_expr, begin_valid, end_valid) ==
    IF begin_valid # "none" THEN Raised(begin_valid)
    ELSE IF end_valid # "none" THEN Raised(end_valid)
    ELSE [exc |-> "none", def |-> PeriodDefinition(name, begin_expr, end_expr)]

\* lines 153-163, given the outcomes of building the two expressions
Built(name, begin_expr, end_expr) ==
    IF begin_expr.exc # "none" THEN Raised(begin_expr.exc)
    ELSE IF end_expr.exc # "none" THEN Raised(end_expr.exc)
    ELSE Validated(name, begin_expr.expr, end_expr.expr,
                   ExpressionValidator(begin_expr.expr, TRUE),
                   ExpressionValidator(end_expr.expr, FALSE))

\* lines 153-158: without 'end-expr' in the results the end expression is the
\* begin expression
BuildExpressions(period_res, begin_expr) ==
    Built(period_res.period_name, begin_expr,
          IF period_res.has_end
          THEN _parse_results_to_expression(period_res.end_expr)
          ELSE begin_expr)

\* lines 143-158, given the results of the grammar
FromResults(period_res) ==
    IF period_res.exc # "none" THEN Raised("MalformedExpression")
    ELSE BuildExpressions(period_res,
                          _parse_results_to_expression(period_res.begin_expr))

parse_period_arg(arg) == FromResults(_period(arg))

-----------------------------------------------------------------------------
(* Configuration *)

\* the period definitions of the model, PeriodDefinition objects for
\*   1  p:$evt.$name == "a"                          (no end clause)
\*   2  q:$evt.$name == "a" : $evt.$name == "b"
\*   3  r:$evt.x == 1 : $evt.x == $begin.$evt.x
\*   4  sys:$evt.$name == "sched_switch"
\*          : $evt.$name == "sched_switch" && $evt.next_tid == $begin.$evt.prev_tid
NameIs(str) == EqExpression(EventNameExpression(FALSE), StringExpression(str))
PeriodDefs ==
    << PeriodDefinition("p", NameIs("a"), NameIs("a")),
       PeriodDefinition("q", NameIs("a"), NameIs("b")),
       PeriodDefinition("r",
           EqExpression(EventFieldExpression(FALSE, "AUTO", "x"), NumberExpression(10)),
           EqExpression(EventFieldExpression(FALSE, "AUTO", "x"),
                        EventFieldExpression(TRUE, "AUTO", "x"))),
       PeriodDefinition("sys",
           NameIs("sched_switch"),
           LogicalAndExpression(
               NameIs("sched_switch"),
               EqExpression(EventFieldExpression(FALSE, "AUTO", "next_tid"),
                            EventFieldExpression(TRUE, "AUTO", "prev_tid")))) >>

\* AnalysisConfig.  period_begin_ev_name is not set by AnalysisConfig.__init__:
\* it is "absent" unless the caller has added the attribute (with value None).
Configs ==
    [refresh_period : {None, 0, 1},
     begin_ts : {None, 0, 2},
     end_ts : {None, 0, 2},
     period_defs : {<<>>, <<1>>, <<2>>, <<1, 2>>, <<3>>},
     period_begin_ev_name : {"absent", "None"}]

\* the names bound in the module namespace of core/analysis.py
AnalysisNames == {"core_period", "core_event", "PeriodData", "AnalysisConfig", "Analysis"}

-----------------------------------------------------------------------------
(* core/analysis.py and core/sched.py.  The operators below take and return *)
(* the analysis object as a record; exc is the exception raised, if any.   *)
(* The analysis is a SchedAnalysis: Analysis.reset itself only raises       *)
(* NotImplementedError.                                                     *)

Self ==
    [started |-> started, ended |-> ended, last_event_ts |-> last_event_ts,
     periods |-> periods, next_id |-> next_id, ticks |-> ticks,
     state_cbs |-> state_cbs, exc |-> "none"]

raise(s, e) == [s EXCEPT !.exc = e]

\* truth value of a timestamp-valued attribute: None and 0 are false
truthy(x) == x # None /\ x # 0

NoPeriod ==
    [id |-> 0, period_start_ts |-> None, begin_context |-> NoContext]

\* PeriodData.__init__(self, start_ts, begin_context=None), called with the
\* positional arguments args
PeriodData(args) ==
    IF Len(args) \in {1, 2}
    THEN [exc |-> "none",
          obj |-> [id |-> 0, period_start_ts |-> args[1],
                   begin_context |-> IF Len(args) = 2 THEN args[2] ELSE NoContext]]
    ELSE [exc |-> "TypeError", obj |-> NoPeriod]

\* SchedAnalysis.reset: the period's aggregator, and its callbacks in the state layer
reset(s, period) ==
    [s EXCEPT !.state_cbs = @ \cup {period.id}]

\* the aggregator attributes SchedAnalysis.reset sets on the period
reset_period(period) ==
    [id |-> period.id, period_start_ts |-> period.period_start_ts,
     begin_context |-> period.begin_context,
     sched_list |-> <<>>, min_latency |-> None, max_latency |-> None,
     total_latency |-> 0, tids |-> <<>>]

\* Analysis._open_period(self, period_def, timestamp, begin_context), called
\* with the positional arguments args
_open_period(s, args) ==
    IF Len(args) # 3 THEN raise(s, "TypeError")
    ELSE LET r == PeriodData(<<args[1], args[2], args[3]>>)
         IN  IF r.exc # "none" THEN raise(s, r.exc)
             ELSE LET new_period == reset_period([r.obj EXCEPT !.id = s.next_id])
                  IN  reset([s EXCEPT !.periods = @ \cup {new_period},
                                      !.next_id = @ + 1],
                            new_period)

_close_period(s, period) ==
    [s EXCEPT !.ticks = Append(@, [begin_ns |-> period.period_start_ts,
                                   end_ns |-> s.last_event_ts,
                                   period |-> period.id]),
              !.state_cbs = @ \ {period.id},
              !.periods = @ \ {period}]

_check_analysis_begin(s, ev) ==
    IF truthy(conf.begin_ts) /\ ev.timestamp >= conf.begin_ts
    THEN LET s1 == _open_period(s, <<0, ev.timestamp>>)
         IN  IF s1.exc # "none" THEN s1 ELSE [s1 EXCEPT !.started = TRUE]
    ELSE s

_check_analysis_end(s, ev) ==
    IF truthy(conf.end_ts) /\ ev.timestamp > conf.end_ts
    THEN [s EXCEPT !.ended = TRUE]
    ELSE s

_check_refresh(s, period, ev) ==
    IF ~truthy(period.period_start_ts) THEN s
    ELSE IF ev.timestamp >= period.period_start_ts + conf.refresh_period
    THEN _open_period(_close_period(s, period), <<0, ev.timestamp>>)
    ELSE s

\* lines 89-91: for period in self._periods: if expr_matches(period_def.end_expr, ...):
\* period_def is a local of process_event that is not bound yet when the
\* condition is evaluated; the if has no body.
end_loop(s, match_context) ==
    IF s.periods = {} THEN s ELSE raise(s, "UnboundLocalError")

\* lines 94-98: for period_def in self._conf.period_defs
RECURSIVE begin_loop(_, _, _, _)
begin_loop(s, ev, match_context, i) ==
    IF i > Len(conf.period_defs) THEN s
    ELSE LET period_def == PeriodDefs[conf.period_defs[i]]
             m == expr_matches(period_def.begin_expr, match_context, NoContext)
         IN  IF m \notin {"T", "F"} THEN raise(s, m)
             ELSE IF m = "F" THEN begin_loop(s, ev, match_context, i + 1)
             \* line 96 snapshots the event (core_event.Event); line 97 reads
             \* the bare name MatchContext
             ELSE IF "MatchContext" \notin AnalysisNames THEN raise(s, "NameError")
             ELSE LET s1 == _open_period(s, <<conf.period_defs[i], ev.timestamp,
                                              MatchContext(ev)>>)
                  IN  IF s1.exc # "none" THEN s1
                      ELSE begin_loop(s1, ev, match_context, i + 1)

\* lines 103-105: for period in self._periods, the body replacing elements of
\* the set being iterated.  todo: the instances the iterator has yet to
\* yield; an instance added by the body may or may not be yielded later.
RECURSIVE refresh_loop(_, _, _)
refresh_loop(s, ev, todo) ==
    IF todo = {} THEN {s}
    ELSE UNION { LET s1 == IF conf.refresh_period # None
                           THEN _check_refresh(s, p, ev) ELSE s
                     new == s1.periods \ s.periods
                 IN  IF s1.exc # "none" THEN {s1}
                     ELSE refresh_loop(s1, ev, todo \ {p})
                          \cup (IF new = {} THEN {}
                                ELSE refresh_loop(s1, ev, (todo \ {p}) \cup new))
               : p \in todo }

\* Analysis.process_event: the set of states the call can end in
process_event(s0, ev) ==
    LET s1 == _check_analysis_end(s0, ev)
    IN  IF s1.ended THEN {s1}
        ELSE
        LET s2 == [s1 EXCEPT !.last_event_ts = ev.timestamp]
            s3 == IF s2.started THEN s2
                  ELSE IF truthy(conf.begin_ts) THEN _check_analysis_begin(s2, ev)
                  ELSE [s2 EXCEPT !.started = TRUE]
        IN  IF s3.exc # "none" \/ ~s3.started THEN {s3}
            ELSE
            LET match_context == MatchContext(ev)
                s4 == end_loop(s3, match_context)
                s5 == IF s4.exc # "none" THEN s4
                      ELSE begin_loop(s4, ev, match_context, 1)
            IN  IF s5.exc # "none" THEN {s5}
                \* line 101: the attribute is read; with the value None
                \* _handle_period_event is not called
                ELSE IF conf.period_begin_ev_name = "absent"
                THEN {raise(s5, "AttributeError")}
                ELSE refresh_loop(s5, ev, s5.periods)

\* Analysis.begin_analysis
begin_analysis(s, first) ==
    IF conf.period_begin_ev_name = "absent" THEN raise(s, "AttributeError")
    ELSE IF conf.period_begin_ev_name = "None" /\ conf.begin_ts = None
    THEN _open_period(s, <<0, first.timestamp>>)
    ELSE s

\* Analysis.end_analysis: for period in self._periods: self._close_period(period).
\* Removing from the set being iterated makes the next step of the iteration
\* raise RuntimeError.
end_analysis(s) ==
    IF s.periods = {} THEN {s}
    ELSE { raise(_close_period(s, p), "RuntimeError") : p \in s.periods }

-----------------------------------------------------------------------------
(* core/sched.py: the notification handlers of SchedAnalysis.  A handler    *)
(* takes the period it is called for and the keyword arguments of the       *)
(* notification, and returns the period as it leaves it.  A process of the  *)
(* state layer is a record; NoProcess stands for None.  A list-valued       *)
(* attribute of the configuration is a record; NoList stands for None.      *)

Process(tid, comm, prio, last_wakeup) ==
    [is_none |-> FALSE, pid |-> tid, tid |-> tid, comm |-> comm, prio |-> prio,
     last_wakeup |-> last_wakeup]
NoProcess ==
    [is_none |-> TRUE, pid |-> None, tid |-> None, comm |-> "", prio |-> None,
     last_wakeup |-> None]

List(items) == [is_none |-> FALSE, items |-> items]
NoList == [is_none |-> TRUE, items |-> {}]

\* truth value of a list-valued attribute: None and the empty list are false
truthy_list(l) == ~l.is_none /\ l.items # {}

\* variant: the tid of the process is not tested
_filter_process_comm(proc) ==
    IF proc.is_none THEN TRUE
    ELSE IF truthy_list(conf.proc_list) /\ proc.comm \notin conf.proc_list.items
    THEN FALSE
    ELSE TRUE

\* Analysis._filter_process
_filter_process(proc) ==
    IF proc.is_none THEN TRUE
    ELSE IF truthy_list(conf.proc_list) /\ proc.comm \notin conf.proc_list.items
    THEN FALSE
    ELSE IF truthy_list(conf.tid_list) /\ proc.tid \notin conf.tid_list.items
    THEN FALSE
    ELSE TRUE

\* variant: every CPU passes
_filter_cpu_all(cpu) == TRUE

\* Analysis._filter_cpu
_filter_cpu(cpu) ==
    ~(truthy_list(conf.cpu_list) /\ cpu \notin conf.cpu_list.items)

SchedEvent(wakeup_ts, switch_ts, wakee_proc, waker_proc, target_cpu) ==
    [wakeup_ts |-> wakeup_ts, switch_ts |-> switch_ts, wakee_proc |-> wakee_proc,
     waker_proc |-> waker_proc, prio |-> wakee_proc.prio,
     target_cpu |-> target_cpu, latency |-> switch_ts - wakeup_ts]

\* ProcessSchedStats.__init__, on top of stats.Process.__init__
ProcessSchedStats(pid, tid, comm) ==
    [pid |-> pid, tid |-> tid, comm |-> comm, prio_list |-> <<>>,
     min_latency |-> None, max_latency |-> None, total_latency |-> 0,
     sched_list |-> <<>>]

\* stats.Process.new_from_process
new_from_process(proc) == ProcessSchedStats(proc.pid, proc.tid, proc.comm)

\* stats.Process.update_prio
update_prio(proc_stats, timestamp, prio) ==
    [proc_stats EXCEPT !.prio_list = Append(@, [timestamp |-> timestamp,
                                                prio |-> prio])]

\* the minimum or the maximum kept by the two update functions: replaced
\* when it is None or when the latency is beyond it
Kept(cur, latency, beyond) == IF cur = None \/ beyond THEN latency ELSE cur

\* ProcessSchedStats.update_stats
update_stats(proc_stats, sched_event) ==
    [proc_stats EXCEPT
        !.min_latency = Kept(@, sched_event.latency,
                             sched_event.latency < proc_stats.min_latency),
        !.max_latency = Kept(@, sched_event.latency,
                             sched_event.latency > proc_stats.max_latency),
        !.total_latency = @ + sched_event.latency,
        !.sched_list = Append(@, sched_event)]

\* variant: the maximum is replaced when the latency is below it
_update_stats_min(period, sched_event) ==
    [period EXCEPT
        !.min_latency = Kept(@, sched_event.latency,
                             sched_event.latency < period.min_latency),
        !.max_latency = Kept(@, sched_event.latency,
                             sched_event.latency < period.max_latency),
        !.total_latency = @ + sched_event.latency,
        !.sched_list = Append(@, sched_event)]

\* SchedAnalysis._update_stats
_update_stats(period, sched_event) ==
    [period EXCEPT
        !.min_latency = Kept(@, sched_event.latency,
                             sched_event.latency < period.min_latency),
        !.max_latency = Kept(@, sched_event.latency,
                             sched_event.latency > period.max_latency),
        !.total_latency = @ + sched_event.latency,
        !.sched_list = Append(@, sched_event)]

\* period.tids[tid] = proc_stats
SetTid(period, tid, proc_stats) ==
    [period EXCEPT !.tids = [t \in DOMAIN period.tids \cup {tid} |->
                                IF t = tid THEN proc_stats ELSE period.tids[t]]]

\* lines 73-76: the waker, when there is one, gets its statistics
WithWaker(period, waker_proc, switch_ts) ==
    IF ~waker_proc.is_none /\ waker_proc.tid \notin DOMAIN period.tids
    THEN SetTid(period, waker_proc.tid,
                update_prio(new_from_process(waker_proc), switch_ts, waker_proc.prio))
    ELSE period

\* lines 78-81: next_tid gets the statistics of the wakee
WithWakee(period, next_tid, wakee_proc, switch_ts) ==
    IF next_tid \notin DOMAIN period.tids
    THEN SetTid(period, next_tid,
                update_prio(new_from_process(wakee_proc), switch_ts, wakee_proc.prio))
    ELSE period

\* variant: the sample goes to the period only
Credit_period(period, next_tid, sched_event) ==
    _update_stats(period, sched_event)

\* lines 83-86
Credit(period, next_tid, sched_event) ==
    _update_stats([period EXCEPT !.tids[next_tid] = update_stats(@, sched_event)],
                  sched_event)

\* variant: the latency is kept when it is strictly between the bounds
_process_sched_switch_open(period, kwargs) ==
    IF ~_filter_process(kwargs.wakee_proc) THEN period
    ELSE IF ~_filter_cpu(kwargs.cpu_id) THEN period
    ELSE IF kwargs.wakee_proc.last_wakeup = None THEN period
    ELSE IF conf.min_duration # None
            /\ kwargs.timestamp - kwargs.wakee_proc.last_wakeup <= conf.min_duration
    THEN period
    ELSE IF conf.max_duration # None
            /\ kwargs.timestamp - kwargs.wakee_proc.last_wakeup >= conf.max_duration
    THEN period
    ELSE Credit(WithWakee(WithWaker(period, kwargs.waker_proc, kwargs.timestamp),
                          kwargs.next_tid, kwargs.wakee_proc, kwargs.timestamp),
                kwargs.next_tid,
                SchedEvent(kwargs.wakee_proc.last_wakeup, kwargs.timestamp,
                           kwargs.wakee_proc, kwargs.waker_proc, kwargs.cpu_id))

\* SchedAnalysis._process_sched_switch
_process_sched_switch(period, kwargs) ==
    IF ~_filter_process(kwargs.wakee_proc) THEN period
    ELSE IF ~_filter_cpu(kwargs.cpu_id) THEN period
    ELSE IF kwargs.wakee_proc.last_wakeup = None THEN period
    ELSE IF conf.min_duration # None
            /\ kwargs.timestamp - kwargs.wakee_proc.last_wakeup < conf.min_duration
    THEN period
    ELSE IF conf.max_duration # None
            /\ kwargs.timestamp - kwargs.wakee_proc.last_wakeup > conf.max_duration
    THEN period
    ELSE Credit(WithWakee(WithWaker(period, kwargs.waker_proc, kwargs.timestamp),
                          kwargs.next_tid, kwargs.wakee_proc, kwargs.timestamp),
                kwargs.next_tid,
                SchedEvent(kwargs.wakee_proc.last_wakeup, kwargs.timestamp,
                           kwargs.wakee_proc, kwargs.waker_proc, kwargs.cpu_id))

\* variant: a tid that has no statistics in the period gets them
_process_prio_changed_any(period, kwargs) ==
    IF kwargs.tid \notin DOMAIN period.tids
    THEN SetTid(period, kwargs.tid,
                update_prio(ProcessSchedStats(kwargs.tid, kwargs.tid, ""),
                            kwargs.timestamp, kwargs.prio))
    ELSE [period EXCEPT !.tids[kwargs.tid] =
              update_prio(@, kwargs.timestamp, kwargs.prio)]

\* SchedAnalysis._process_prio_changed
_process_prio_changed(period, kwargs) ==
    IF kwargs.tid \notin DOMAIN period.tids THEN period
    ELSE [period EXCEPT !.tids[kwargs.tid] =
              update_prio(@, kwargs.timestamp, kwargs.prio)]

\* no notification, and the period no handler has been called for
NoNotification == [name |-> "none", kwargs |-> <<>>]
NoSched ==
    [period |-> reset_period(NoPeriod), before |-> reset_period(NoPeriod),
     notification |-> NoNotification, calls |-> 0]

-----------------------------------------------------------------------------
(* cli/irq.py: the result tables of IrqAnalysisCommand. The interrupts      *)
(* (linuxautomaton/sv.py), their statistics (core/irq.py) and the result    *)
(* tables of a command (cli/mi.py, cli/command.py) are defined outside of   *)
(* it; the command reads and fills them as written here.                    *)

\* str(id), id a natural number
RECURSIVE IntStr(_)
IntStr(n) ==
    IF n < 10 THEN nums[n + 1] ELSE IntStr(n \div 10) \o nums[(n % 10) + 1]

\* sorted(analysis_stats): the keys in ascending order
RECURSIVE sorted(_)
sorted(S) ==
    IF S = {} THEN <<>>
    ELSE LET m == CHOOSE x \in S : \A y \in S : x <= y
         IN  <<m>> \o sorted(S \ {m})

\* sv.HardIRQ and sv.SoftIRQ, once completed
HardIRQ(id, begin_ts, end_ts) ==
    [type |-> "HardIRQ", id |-> id, cpu_id |-> 0, begin_ts |-> begin_ts,
     end_ts |-> end_ts, raise_ts |-> None]
SoftIRQ(id, raise_ts, begin_ts, end_ts) ==
    [type |-> "SoftIRQ", id |-> id, cpu_id |-> 0, begin_ts |-> begin_ts,
     end_ts |-> end_ts, raise_ts |-> raise_ts]

Duration(irq) == irq.end_ts - irq.begin_ts
RaiseLatency(irq) == irq.begin_ts - irq.raise_ts
WasRaised(irq) == irq.raise_ts # None

\* the smallest and the largest of the values f(irq), None for no irq
Smallest(f(_), irq_list) ==
    IF irq_list = <<>> THEN None
    ELSE CHOOSE x \in {f(irq_list[i]) : i \in 1..Len(irq_list)} :
             \A i \in 1..Len(irq_list) : x <= f(irq_list[i])
Largest(f(_), irq_list) ==
    IF irq_list = <<>> THEN None
    ELSE CHOOSE x \in {f(irq_list[i]) : i \in 1..Len(irq_list)} :
             \A i \in 1..Len(irq_list) : x >= f(irq_list[i])
RECURSIVE Total(_, _)
Total(f(_), irq_list) ==
    IF irq_list = <<>> THEN 0 ELSE f(Head(irq_list)) + Total(f, Tail(irq_list))

\* core_irq.IrqStats of an interrupt that the irqs of irq_list were credited to
IrqStats(name, irq_list) ==
    [name |-> name, irq_list |-> irq_list, count |-> Len(irq_list),
     min_duration |-> Smallest(Duration, irq_list),
     max_duration |-> Largest(Duration, irq_list),
     total_duration |-> Total(Duration, irq_list),
     raise_count |-> Len(SelectSeq(irq_list, WasRaised)),
     min_raise_latency |-> Smallest(RaiseLatency, SelectSeq(irq_list, WasRaised)),
     max_raise_latency |-> Largest(RaiseLatency, SelectSeq(irq_list, WasRaised)),
     total_raise_latency |-> Total(RaiseLatency, SelectSeq(irq_list, WasRaised))]

\* Command._mi_create_result_table
_mi_create_result_table(table_class, begin, end, subtitle) ==
    [table_class |-> table_class, timerange |-> [begin |-> begin, end |-> end],
     subtitle |-> subtitle, rows |-> <<>>]

\* ResultTable.append_row
append_row(result_table, row) ==
    [result_table EXCEPT !.rows = Append(@, row)]

\* Command._mi_get_result_tables
_mi_get_result_tables(result_tables, table_class) ==
    SelectSeq(result_tables, LAMBDA t : t.table_class = table_class)

\* a quotient of two integers that Python keeps as a float: its two terms
Quotient(num, den) == [num |-> num, den |-> den]

\* the cell of a standard deviation: Unknown for nan, else the deviation of
\* the values
StdevCell(known, values) ==
    IF known THEN [type |-> "Duration", stdev_of |-> values]
    ELSE [type |-> "Unknown", stdev_of |-> <<>>]

\* mi.Irq
Irq(is_hard, nr, name) == [is_hard |-> is_hard, nr |-> nr, name |-> name]

\* IrqAnalysisCommand._append_stats_result_table_row, with
\* _compute_duration_stdev
_append_stats_result_table_row(is_hard, irq_nr, irq_stats, stats_table) ==
    append_row(stats_table,
        [irq |-> Irq(is_hard, irq_nr, irq_stats.name),
         count |-> irq_stats.count,
         min_duration |-> irq_stats.min_duration,
         avg_duration |-> Quotient(irq_stats.total_duration, irq_stats.count),
         max_duration |-> irq_stats.max_duration,
         stdev_duration |->
             StdevCell(irq_stats.count >= 2,
                       [i \in 1..Len(irq_stats.irq_list) |->
                           Duration(irq_stats.irq_list[i])])])

\* IrqAnalysisCommand._append_raise_stats_result_table_row, with
\* _compute_raise_latency_stdev
_append_raise_stats_result_table_row(irq_nr, irq_stats, raise_stats_table) ==
    IF irq_stats.raise_count = 0 THEN raise_stats_table
    ELSE append_row(raise_stats_table,
        [irq |-> Irq(FALSE, irq_nr, irq_stats.name),
         count |-> irq_stats.raise_count,
         min_latency |-> irq_stats.min_raise_latency,
         avg_latency |-> Quotient(irq_stats.total_raise_latency,
                                  irq_stats.raise_count),
         max_latency |-> irq_stats.max_raise_latency,
         stdev_latency |->
             StdevCell(irq_stats.raise_count >= 2,
                       [i \in 1..Len(SelectSeq(irq_stats.irq_list, WasRaised)) |->
                           RaiseLatency(SelectSeq(irq_stats.irq_list, WasRaised)[i])])])

\* The quotient of line 251 is a quotient of doubles. For the durations
\* 1100, 1200 and 1300 ns and the resolutions 1 to 5 the integer part of the
\* double is the integer part of the exact quotient but for these
\* <<min, max, resolution, duration>>, where the double lies just below the
\* whole number the exact quotient is (0.9999999999999989 for 1,
\* 1.9999999999999978 for 2).
RoundedBelow == { <<1100, 1300, 2, 1200>>, <<1100, 1300, 4, 1200>> }

\* int((duration_us - min_duration_us) / step), line 251
IntQuotient(duration, min_duration, max_duration, resolution) ==
    IF <<min_duration, max_duration, resolution, duration>> \in RoundedBelow
    THEN ((duration - min_duration) * resolution) \div (max_duration - min_duration) - 1
    ELSE ((duration - min_duration) * resolution) \div (max_duration - min_duration)

\* index of the bucket of an irq, line 251
BucketIndex(irq, irq_stats, resolution) ==
    IF IntQuotient(Duration(irq), irq_stats.min_duration,
                   irq_stats.max_duration, resolution) < resolution - 1
    THEN IntQuotient(Duration(irq), irq_stats.min_duration,
                     irq_stats.max_duration, resolution)
    ELSE resolution - 1

\* lines 256-263: the row of a bucket; the bounds, in ns, are the exact
\* quotients the doubles approximate
FreqRow(index, irq_stats, resolution) ==
    [duration_lower |->
         Quotient(irq_stats.min_duration * resolution
                  + index * (irq_stats.max_duration - irq_stats.min_duration),
                  resolution),
     duration_upper |->
         Quotient(irq_stats.min_duration * resolution
                  + (index + 1) * (irq_stats.max_duration - irq_stats.min_duration),
                  resolution),
     count |-> Cardinality({ i \in 1..Len(irq_stats.irq_list) :
                   BucketIndex(irq_stats.irq_list[i], irq_stats, resolution)
                   = index })]

\* IrqAnalysisCommand._fill_freq_result_table
_fill_freq_result_table(irq_stats, freq_table, resolution) ==
    IF irq_stats.max_duration = irq_stats.min_duration THEN freq_table
    ELSE [freq_table EXCEPT
             !.rows = @ \o [i \in 1..resolution |->
                               FreqRow(i - 1, irq_stats, resolution)]]

\* the three results of _get_stats_freq_result_tables
Tables(stats_table, raise_stats_table, freq_tables) ==
    [stats_table |-> stats_table, raise_stats_table |-> raise_stats_table,
     freq_tables |-> freq_tables]

\* variant: the filter list is not looked at
FillOne_unfiltered(args, begin_ns, end_ns, is_hard, id, irq_stats, filter_list, tables) ==
    IF irq_stats.count = 0 THEN tables
    ELSE Tables(
        IF args.stats
        THEN _append_stats_result_table_row(is_hard, id, irq_stats,
                                            tables.stats_table)
        ELSE tables.stats_table,
        IF args.stats /\ ~is_hard
        THEN _append_raise_stats_result_table_row(id, irq_stats,
                                                  tables.raise_stats_table)
        ELSE tables.raise_stats_table,
        IF args.freq
        THEN Append(tables.freq_tables,
                    _fill_freq_result_table(irq_stats,
                        _mi_create_result_table("freq", begin_ns, end_ns,
                            irq_stats.name \o " (" \o IntStr(id) \o ")"),
                        args.freq_resolution))
        ELSE tables.freq_tables)

\* lines 269-297: one iteration of the loop of
\* _fill_stats_freq_result_tables
FillOne(args, begin_ns, end_ns, is_hard, id, irq_stats, filter_list, tables) ==
    IF truthy_list(filter_list) /\ IntStr(id) \notin filter_list.items
    THEN tables
    ELSE IF irq_stats.count = 0 THEN tables
    ELSE Tables(
        IF args.stats
        THEN _append_stats_result_table_row(is_hard, id, irq_stats,
                                            tables.stats_table)
        ELSE tables.stats_table,
        IF args.stats /\ ~is_hard
        THEN _append_raise_stats_result_table_row(id, irq_stats,
                                                  tables.raise_stats_table)
        ELSE tables.raise_stats_table,
        IF args.freq
        THEN Append(tables.freq_tables,
                    _fill_freq_result_table(irq_stats,
                        _mi_create_result_table("freq", begin_ns, end_ns,
                            irq_stats.name \o " (" \o IntStr(id) \o ")"),
                        args.freq_resolution))
        ELSE tables.freq_tables)

RECURSIVE FillLoop(_, _, _, _, _, _, _, _)
FillLoop(args, begin_ns, end_ns, is_hard, analysis_stats, filter_list, ids, tables) ==
    IF ids = <<>> THEN tables
    ELSE FillLoop(args, begin_ns, end_ns, is_hard, analysis_stats, filter_list,
                  Tail(ids),
                  FillOne(args, begin_ns, end_ns, is_hard, Head(ids),
                          analysis_stats[Head(ids)], filter_list, tables))

\* IrqAnalysisCommand._fill_stats_freq_result_tables
_fill_stats_freq_result_tables(args, begin_ns, end_ns, is_hard, analysis_stats, filter_list, tables) ==
    FillLoop(args, begin_ns, end_ns, is_hard, analysis_stats, filter_list,
             sorted(DOMAIN analysis_stats), tables)

\* lines 313-316: the hard interrupts
WithHard(args, analysis, begin_ns, end_ns, tables) ==
    IF ~args.irq_filter_list.is_none \/ args.softirq_filter_list.is_none
    THEN _fill_stats_freq_result_tables(args, begin_ns, end_ns, TRUE,
             analysis.hard_irq_stats, args.irq_filter_list, tables)
    ELSE tables

\* lines 318-321: the soft interrupts
WithSoft(args, analysis, begin_ns, end_ns, tables) ==
    IF ~args.softirq_filter_list.is_none \/ args.irq_filter_list.is_none
    THEN _fill_stats_freq_result_tables(args, begin_ns, end_ns, FALSE,
             analysis.softirq_stats, args.softirq_filter_list, tables)
    ELSE tables

\* IrqAnalysisCommand._get_stats_freq_result_tables
_get_stats_freq_result_tables(args, analysis, begin_ns, end_ns) ==
    WithSoft(args, analysis, begin_ns, end_ns,
        WithHard(args, analysis, begin_ns, end_ns,
            Tables(_mi_create_result_table("stats", begin_ns, end_ns, "None"),
                   _mi_create_result_table("raise-stats", begin_ns, end_ns, "None"),
                   <<>>)))

\* IrqAnalysisCommand._filter_irq: "T", "F" or the exception it raises
_filter_irq(args, irq) ==
    IF irq.type = "HardIRQ"
    THEN IF truthy_list(args.irq_filter_list)
         THEN IF IntStr(irq.id) \in args.irq_filter_list.items THEN "T" ELSE "F"
         ELSE IF truthy_list(args.softirq_filter_list) THEN "F" ELSE "T"
    ELSE IF truthy_list(args.softirq_filter_list)
         THEN IF IntStr(irq.id) \in args.softirq_filter_list.items THEN "T" ELSE "F"
         ELSE IF truthy_list(args.irq_filter_list) THEN "NameError" ELSE "T"

\* lines 164-183: the row of an irq in the log
LogRow(analysis, irq) ==
    [time_range |-> [begin |-> irq.begin_ts, end |-> irq.end_ts],
     raised_ts |-> IF irq.type = "HardIRQ" THEN "Empty"
                   ELSE IF irq.raise_ts = None THEN "Unknown"
                   ELSE "Timestamp",
     cpu |-> irq.cpu_id,
     irq |-> Irq(irq.type = "HardIRQ", irq.id,
                 IF irq.type = "HardIRQ"
                 THEN analysis.hard_irq_stats[irq.id].name
                 ELSE analysis.softirq_stats[irq.id].name)]

\* IrqAnalysisCommand._get_log_result_table: the table, and the exception
\* that _filter_irq raises
RECURSIVE LogLoop(_, _, _, _)
LogLoop(args, analysis, irq_list, result_table) ==
    IF irq_list = <<>> THEN [exc |-> "none", table |-> result_table]
    ELSE IF _filter_irq(args, Head(irq_list)) = "NameError"
    THEN [exc |-> "NameError", table |-> result_table]
    ELSE LogLoop(args, analysis, Tail(irq_list),
                 IF _filter_irq(args, Head(irq_list)) = "T"
                 THEN append_row(result_table, LogRow(analysis, Head(irq_list)))
                 ELSE result_table)

_get_log_result_table(args, analysis, begin_ns, end_ns) ==
    LogLoop(args, analysis, analysis.irq_list,
            _mi_create_result_table("log", begin_ns, end_ns, "None"))

\* None where a result table is expected
NoTable == [table_class |-> "None", timerange |-> [begin |-> None, end |-> None],
            subtitle |-> "None", rows |-> <<>>]
NoTables == [log_table |-> NoTable, stats_table |-> NoTable,
             raise_stats_table |-> NoTable, freq_tables |-> <<>>]

\* lines 108-121: the tables that the tick appends in MI mode
Appended(log_table, tables) ==
    (IF log_table # NoTable THEN <<log_table>> ELSE <<>>)
    \o (IF tables.stats_table # NoTable /\ tables.stats_table.rows # <<>>
        THEN <<tables.stats_table>> ELSE <<>>)
    \o (IF tables.raise_stats_table # NoTable
           /\ tables.raise_stats_table.rows # <<>>
        THEN <<tables.raise_stats_table>> ELSE <<>>)
    \o SelectSeq(tables.freq_tables, LAMBDA t : t.rows # <<>>)

\* lines 104-132, the log table being made
TickWith(self, log_table, tables) ==
    [self EXCEPT
        !.tables = [log_table |-> log_table, stats_table |-> tables.stats_table,
                    raise_stats_table |-> tables.raise_stats_table,
                    freq_tables |-> tables.freq_tables],
        !.result_tables = IF self.mi_mode THEN @ \o Appended(log_table, tables)
                          ELSE @]

\* the tables of lines 104-106
StatsFreq(self, begin_ns, end_ns) ==
    IF self.args.stats \/ self.args.freq
    THEN _get_stats_freq_result_tables(self.args, self.analysis, begin_ns, end_ns)
    ELSE Tables(NoTable, NoTable, <<>>)

\* IrqAnalysisCommand._analysis_tick
_analysis_tick(self, begin_ns, end_ns) ==
    IF ~self.args.log
    THEN TickWith(self, NoTable, StatsFreq(self, begin_ns, end_ns))
    ELSE IF _get_log_result_table(self.args, self.analysis, begin_ns, end_ns).exc
            # "none"
    THEN [self EXCEPT !.exc = "NameError", !.tables = NoTables]
    ELSE TickWith(self,
             _get_log_result_table(self.args, self.analysis, begin_ns, end_ns).table,
             StatsFreq(self, begin_ns, end_ns))

\* lines 146-151: the rows of the summary
RECURSIVE SummaryRows(_)
SummaryRows(stats_tables) ==
    IF stats_tables = <<>> THEN <<>>
    ELSE [i \in 1..Len(Head(stats_tables).rows) |->
             [time_range |-> Head(stats_tables).timerange,
              count |-> Head(stats_tables).rows[i].count]]
         \o SummaryRows(Tail(stats_tables))

\* lines 139-154, given the list of the stats tables
SummaryOf(self, stats_tables) ==
    IF stats_tables = <<>> THEN [self EXCEPT !.exc = "IndexError"]
    ELSE [self EXCEPT !.result_tables =
             << [_mi_create_result_table("summary",
                     stats_tables[1].timerange.begin,
                     stats_tables[Len(stats_tables)].timerange.end, "None")
                 EXCEPT !.rows = SummaryRows(stats_tables)] >>]

\* IrqAnalysisCommand._create_summary_result_tables
_create_summary_result_tables(self) ==
    IF ~self.args.stats THEN [self EXCEPT !.result_tables = <<>>]
    ELSE SummaryOf(self, _mi_get_result_tables(self.result_tables, "stats"))

\* no command: no argument, no statistics, no table
NoArgs == [stats |-> FALSE, freq |-> FALSE, log |-> FALSE, freq_resolution |-> None,
           irq_filter_list |-> NoList, softirq_filter_list |-> NoList]
NoAnalysis == [hard_irq_stats |-> <<>>, softirq_stats |-> <<>>, irq_list |-> <<>>]
NoCli ==
    [args |-> NoArgs, mi_mode |-> FALSE, analysis |-> NoAnalysis,
     result_tables |-> <<>>, tables |-> NoTables, op |-> "none",
     exc |-> "none", ticks |-> 0]

-----------------------------------------------------------------------------
(* The program: the caller constructs the analysis, may announce the first  *)
(* event with begin_analysis, hands every event to process_event and calls  *)
(* end_analysis at the end of the stream.                                   *)

\* no call of parse_period_arg, no _Matcher
NoParser == [arg |-> <<>>, called |-> FALSE, result |-> Raised("none")]
NoMatcher ==
    [expr |-> NoExpression, cur_context |-> NoContext, begin_context |-> NoContext,
     matches |-> "unset"]

Init ==
    /\ conf \in Configs
    /\ started = FALSE
    /\ ended = FALSE
    /\ last_event_ts = None
    /\ periods = {}
    /\ next_id = 1
    /\ ticks = <<>>
    /\ state_cbs = {}
    /\ exc = "none"
    /\ phase = "new"
    /\ begun = FALSE
    /\ first_event = NoEvent
    /\ delivered = <<>>
    /\ last_call = [op |-> "none", ev |-> NoEvent]
    /\ parser = NoParser
    /\ matcher = NoMatcher
    /\ sched = NoSched
    /\ cli = NoCli

Update(r) ==
    /\ started' = r.started
    /\ ended' = r.ended
    /\ last_event_ts' = r.last_event_ts
    /\ periods' = r.periods
    /\ next_id' = r.next_id
    /\ ticks' = r.ticks
    /\ state_cbs' = r.state_cbs
    /\ exc' = r.exc

BeginAnalysis(ev) ==
    /\ phase = "new"
    /\ exc = "none"
    /\ Update(begin_analysis(Self, ev))
    /\ phase' = "running"
    /\ begun' = TRUE
    /\ first_event' = ev
    /\ last_call' = [op |-> "begin_analysis", ev |-> ev]
    /\ UNCHANGED <<conf, delivered, parser, matcher, sched, cli>>

ProcessEvent(ev) ==
    /\ phase \in {"new", "running"}
    /\ exc = "none"
    /\ Len(delivered) < MaxEvents
    /\ first_event \in {NoEvent, ev}
    /\ \E r \in process_event(Self, ev) : Update(r)
    /\ phase' = "running"
    /\ first_event' = NoEvent
    /\ delivered' = Append(delivered, ev.timestamp)
    /\ last_call' = [op |-> "process_event", ev |-> ev]
    /\ UNCHANGED <<conf, begun, parser, matcher, sched, cli>>

EndAnalysis ==
    /\ phase \in {"new", "running"}
    /\ exc = "none"
    /\ first_event = NoEvent
    /\ \E r \in end_analysis(Self) : Update(r)
    /\ phase' = "done"
    /\ last_call' = [op |-> "end_analysis", ev |-> NoEvent]
    /\ UNCHANGED <<conf, begun, first_event, delivered, parser, matcher,
                   sched, cli>>

Next ==
    \/ \E ev \in Events : BeginAnalysis(ev)
    \/ \E ev \in Events : ProcessEvent(ev)
    \/ EndAnalysis

Spec == Init /\ [][Next]_vars

-----------------------------------------------------------------------------
(* parse_period_arg on its own: the caller hands one --period argument to   *)
(* parse_period_arg.                                                        *)

FieldLexemes ==
    { <<Lit("$evt."), Word("x")>>,
      <<Lit("$evt."), Word("y")>>,
      <<Lit("$begin."), Lit("$evt."), Word("x")>>,
      <<Lit("$evt."), Lit("$payload."), Word("x")>> }
NameLexemes ==
    { <<Lit("$evt."), Lit("$name")>>,
      <<Lit("$begin."), Lit("$evt."), Lit("$name")>> }
\* 3  3.7  -4.  3e1  +  1e+  1e  +-1
NumberLexemes ==
    { Num(<<"3">>), Num(<<"3", ".", "7">>), Num(<<"-", "4", ".">>),
      Num(<<"3", "e", "1">>), Num(<<"+">>), Num(<<"1", "e", "+">>),
      Num(<<"1", "e">>), Num(<<"+", "-", "1">>) }
RhLexemes ==
    { <<n>> : n \in NumberLexemes } \cup { <<Quoted("a")>> }
    \cup { <<Lit("$evt."), Word("y")>>, <<Lit("$begin."), Lit("$evt."), Word("x")>> }

Comparisons ==
    { lh \o <<Lit(op)>> \o rh :
        lh \in FieldLexemes \cup NameLexemes, op \in _relop, rh \in RhLexemes }

\* $evt.x == 3, $evt.$name == "a", $begin.$evt.$name != "a",
\* $evt.x >= $begin.$evt.x, $evt.y < +
ShortComparisons ==
    { <<Lit("$evt."), Word("x"), Lit("=="), Num(<<"3">>)>>,
      <<Lit("$evt."), Lit("$name"), Lit("=="), Quoted("a")>>,
      <<Lit("$begin."), Lit("$evt."), Lit("$name"), Lit("!="), Quoted("a")>>,
      <<Lit("$evt."), Word("x"), Lit(">="), Lit("$begin."), Lit("$evt."), Word("x")>>,
      <<Lit("$evt."), Word("y"), Lit("<"), Num(<<"+">>)>> }

ShortClauses ==
    ShortComparisons
    \cup { c1 \o <<Lit("&&")>> \o c2 : c1, c2 \in ShortComparisons }

Clauses == Comparisons \cup ShortClauses

\* the arguments: one clause or two, named or not, and some that lack the
\* ':', end with a delimiter, or have a third clause
Args ==
    { pre \o c : pre \in {<<Lit(":")>>, <<Word("p"), Lit(":")>>}, c \in Clauses }
    \cup { <<Lit(":")>> \o c1 \o <<Lit(":")>> \o c2 : c1, c2 \in ShortClauses }
    \cup { <<>>, <<Lit(":")>>, <<Word("p"), Lit(":")>> }
    \cup ShortComparisons
    \cup { <<Word("p"), Word("q"), Lit(":")>> \o c : c \in ShortComparisons }
    \cup { <<Lit(":")>> \o c \o <<d>> :
             c \in ShortComparisons, d \in {Lit(":"), Lit("&&")} }
    \cup { <<Lit(":")>> \o c \o <<Lit(":")>> \o c \o <<Lit(":")>> \o c :
             c \in ShortComparisons }

ParserInit ==
    /\ conf \in {c \in Configs : c.refresh_period = None /\ c.begin_ts = None
                                 /\ c.end_ts = None /\ c.period_defs = <<>>
                                 /\ c.period_begin_ev_name = "None"}
    /\ started = FALSE
    /\ ended = FALSE
    /\ last_event_ts = None
    /\ periods = {}
    /\ next_id = 1
    /\ ticks = <<>>
    /\ state_cbs = {}
    /\ exc = "none"
    /\ phase = "new"
    /\ begun = FALSE
    /\ first_event = NoEvent
    /\ delivered = <<>>
    /\ last_call = [op |-> "none", ev |-> NoEvent]
    /\ parser \in { [arg |-> a, called |-> FALSE, result |-> Raised("none")] :
                     a \in Args }
    /\ matcher = NoMatcher
    /\ sched = NoSched
    /\ cli = NoCli

ParsePeriodArg ==
    /\ ~parser.called
    /\ parser' = [parser EXCEPT !.called = TRUE,
                                !.result = parse_period_arg(parser.arg)]
    /\ UNCHANGED <<conf, started, ended, last_event_ts, periods, next_id, ticks,
                   state_cbs, exc, phase, begun, first_event, delivered,
                   last_call, matcher, sched, cli>>

ParserNext == ParsePeriodArg

ParserSpec == ParserInit /\ [][ParserNext]_vars

-----------------------------------------------------------------------------
(* expr_matches on its own: an expression is evaluated on a current event,  *)
(* with the begin context of an instance or with none.                     *)

MatcherFieldNames == {"x", "y"}
MatcherValues ==
    { NoneValue, IntValue(3), IntValue(4), FloatValue(30), FloatValue(37),
      StrValue("a"), StrValue("b") }
MatcherEvents ==
    [timestamp : {0}, name : EventNames, fields : [MatcherFieldNames -> MatcherValues]]
BeginEvents ==
    { ev \in MatcherEvents :
        ev.fields["y"] = NoneValue /\ ev.fields["x"].k \in {"none", "int", "str"} }

LhOperands ==
    { EventFieldExpression(FALSE, "AUTO", "x"), EventFieldExpression(TRUE, "AUTO", "x"),
      EventFieldExpression(FALSE, "EP", "x"), EventFieldExpression(FALSE, "AUTO", "y"),
      EventNameExpression(FALSE), EventNameExpression(TRUE) }
RhOperands ==
    { NumberExpression(30), NumberExpression(37), StringExpression("a"),
      EventFieldExpression(FALSE, "AUTO", "y"), EventFieldExpression(TRUE, "AUTO", "x") }

CompExpressions ==
    { [type |-> op, lh_expr |-> lh, rh_expr |-> rh] :
        op \in CompTypes, lh \in LhOperands, rh \in RhOperands }

\* $evt.x == 3, $evt.$name == "a", $begin.$evt.$name == "a",
\* $evt.x >= $begin.$evt.x, $evt.x < $evt.y
ShortExpressions ==
    { EqExpression(EventFieldExpression(FALSE, "AUTO", "x"), NumberExpression(30)),
      NameIs("a"),
      EqExpression(EventNameExpression(TRUE), StringExpression("a")),
      GtEqExpression(EventFieldExpression(FALSE, "AUTO", "x"),
                     EventFieldExpression(TRUE, "AUTO", "x")),
      LtExpression(EventFieldExpression(FALSE, "AUTO", "x"),
                   EventFieldExpression(FALSE, "AUTO", "y")) }

MatcherExprs ==
    CompExpressions
    \cup { LogicalNotExpression(e) : e \in { c \in CompExpressions : c.type = "Eq" }
                                           \cup ShortExpressions }
    \cup { LogicalAndExpression(lh, rh) : lh, rh \in ShortExpressions }
    \cup { LogicalAndExpression(LogicalNotExpression(lh), rh) : lh, rh \in ShortExpressions }

MatcherInit ==
    /\ conf \in {c \in Configs : c.refresh_period = None /\ c.begin_ts = None
                                 /\ c.end_ts = None /\ c.period_defs = <<>>
                                 /\ c.period_begin_ev_name = "None"}
    /\ started = FALSE
    /\ ended = FALSE
    /\ last_event_ts = None
    /\ periods = {}
    /\ next_id = 1
    /\ ticks = <<>>
    /\ state_cbs = {}
    /\ exc = "none"
    /\ phase = "new"
    /\ begun = FALSE
    /\ first_event = NoEvent
    /\ delivered = <<>>
    /\ last_call = [op |-> "none", ev |-> NoEvent]
    /\ parser = NoParser
    /\ matcher \in [expr : MatcherExprs,
                     cur_context : { MatchContext(ev) : ev \in MatcherEvents },
                     begin_context : {NoContext}
                                     \cup { MatchContext(ev) : ev \in BeginEvents },
                     matches : {"unset"}]
    /\ sched = NoSched
    /\ cli = NoCli

\* _Matcher.__init__: self._matches = self._expr_matches(expr)
ExprMatches ==
    /\ matcher.matches = "unset"
    /\ matcher' = [matcher EXCEPT !.matches =
                       expr_matches(matcher.expr, matcher.cur_context,
                                    matcher.begin_context)]
    /\ UNCHANGED <<conf, started, ended, last_event_ts, periods, next_id, ticks,
                   state_cbs, exc, phase, begun, first_event, delivered,
                   last_call, parser, sched, cli>>

MatcherNext == ExprMatches

MatcherSpec == MatcherInit /\ [][MatcherNext]_vars

-----------------------------------------------------------------------------
(* Vocabulary of the claims *)

\* the run is over: end_analysis was called, or an exception ended the program
Finished == phase = "done" \/ exc # "none"

\* timestamps of the events given to the analysis so far
Seen == IF first_event # NoEvent THEN <<first_event.timestamp>> ELSE delivered

\* a step that hands an event to process_event
ProcessStep == Len(delivered') = Len(delivered) + 1

\* the event is let through by the dispatcher: not dropped by the end bound,
\* and the analysis is started or starts with it
LetThrough(ev) ==
    /\ ~ended
    /\ ~(conf.end_ts # None /\ ev.timestamp > conf.end_ts)
    /\ (started \/ conf.begin_ts = None \/ ev.timestamp >= conf.begin_ts)

BeginMatches(ev) ==
    { i \in 1..Len(conf.period_defs) :
        expr_matches(PeriodDefs[conf.period_defs[i]].begin_expr,
                     MatchContext(ev), NoContext) = "T" }

Windows == [i \in 1..Len(ticks) |-> <<ticks[i].begin_ns, ticks[i].end_ns>>]
StartsOf(ps) == { p.period_start_ts : p \in ps }
Anonymous(ps) == { p \in ps : p.begin_context.is_none }

-----------------------------------------------------------------------------
(* Claims *)

\* C3: every event let through opens, for each definition whose begin_expr
\* matches it, exactly one new instance with start_ts = the event's timestamp
\* and the event as begin context, and opens nothing for the other definitions
\* (no refresh configured, analysis already started).
C3_BeginMatchOpensOneInstance ==
    [][ (ProcessStep /\ started /\ LetThrough(last_call'.ev)
         /\ conf.refresh_period = None)
        => LET ev == last_call'.ev
               opened == periods' \ periods
           IN  /\ Cardinality(opened) = Cardinality(BeginMatches(ev))
               /\ \A p \in opened : /\ p.period_start_ts = ev.timestamp
                                    /\ p.begin_context = MatchContext(ev) ]_vars

\* C4: with the single definition p (end expression = begin expression) and no
\* refresh, an event matching p leaves exactly one instance of p active, opened
\* at the event's timestamp, and closes the instance that was active before
\* with end_ns = that timestamp.
C4_SameExprWindowsAbut ==
    [][ (ProcessStep /\ started /\ LetThrough(last_call'.ev)
         /\ conf.refresh_period = None /\ conf.period_defs = <<1>>
         /\ BeginMatches(last_call'.ev) # {})
        => LET ev == last_call'.ev
               before == periods \ Anonymous(periods)
               after == periods' \ Anonymous(periods')
           IN  /\ Cardinality(after) = 1
               /\ StartsOf(after) = {ev.timestamp}
               /\ before # {} =>
                    /\ Len(ticks') = Len(ticks) + 1
                    /\ ticks'[Len(ticks')].end_ns = ev.timestamp
                    /\ ticks'[Len(ticks')].begin_ns \in StartsOf(before) ]_vars

\* C5: refresh 1 with events at 1, 2, 3 (begin_analysis called with the first):
\* an instance is opened at 1, rotated at 2 (2 - 1 >= 1) and rotated at 3, giving
\* the windows [1,2] and [2,3] and an instance opened at 3.
C5_RefreshExample ==
    (/\ conf.refresh_period = 1 /\ conf.begin_ts = None /\ conf.end_ts = None
     /\ conf.period_defs = <<>> /\ begun /\ phase = "running")
    => /\ Seen = <<1>> => Windows = <<>> /\ StartsOf(periods) = {1}
       /\ Seen = <<1, 2>> => Windows = << <<1, 2>> >> /\ StartsOf(periods) = {2}
       /\ Seen = <<1, 2, 3>> =>
            Windows = << <<1, 2>>, <<2, 3>> >> /\ StartsOf(periods) = {3}

\* C6: with no period definition (and no begin bound), from begin_analysis to
\* end_analysis exactly one anonymous instance is active; the one begin_analysis
\* opens starts at the first event's timestamp.
C6_OneAnonymousInstance ==
    (conf.period_defs = <<>> /\ conf.begin_ts = None /\ begun /\ phase = "running")
    => /\ Cardinality(periods) = 1
       /\ Anonymous(periods) = periods
       /\ first_event # NoEvent => StartsOf(periods) = {first_event.timestamp}

\* C7: with end_ts set, an event with timestamp > end_ts marks the analysis
\* ended and one with timestamp <= end_ts does not; once ended, an event changes
\* nothing of the analysis and ended stays true.
C7_EndTsEndsAnalysis ==
    [][ ProcessStep
        => LET ev == last_call'.ev
           IN  /\ (conf.end_ts # None /\ ev.timestamp > conf.end_ts) => ended'
               /\ (~ended /\ conf.end_ts # None /\ ev.timestamp <= conf.end_ts)
                    => ~ended'
               /\ ended => /\ ended'
                           /\ UNCHANGED <<started, last_event_ts, periods,
                                          ticks, state_cbs>> ]_vars

\* C8: with begin_ts configured, an event before begin_ts arriving before the
\* start is ignored, and the first event at or after begin_ts starts the
\* analysis and opens one anonymous period at its timestamp; with no begin
\* bound the first event starts the analysis; started never becomes false.
C8_BeginTsStartsAnalysis ==
    [][ (ProcessStep /\ ~ended')
        => LET ev == last_call'.ev
               opened == periods' \ periods
           IN  /\ started => started'
               /\ (~started /\ conf.begin_ts = None) => started'
               /\ (~started /\ conf.begin_ts # None /\ ev.timestamp < conf.begin_ts)
                    => ~started' /\ periods' = periods /\ ticks' = ticks
               /\ (~started /\ conf.begin_ts # None /\ ev.timestamp >= conf.begin_ts)
                    => /\ started'
                       /\ Cardinality(Anonymous(opened)) = 1
                       /\ StartsOf(Anonymous(opened)) = {ev.timestamp} ]_vars

\* C10: every window reported has begin_ns <= end_ns, and a stream of exactly
\* one event that matches both begin and end of the definition p yields one
\* window with begin_ns = end_ns = the event's timestamp.
C10_WindowOfSingleEvent ==
    /\ \A i \in 1..Len(ticks) : ticks[i].begin_ns <= ticks[i].end_ns
    /\ (/\ Finished /\ conf.period_defs = <<1>>
        /\ conf.refresh_period = None /\ conf.begin_ts = None /\ conf.end_ts = None
        /\ Len(delivered) = 1 /\ last_call.ev.name = "a")
       => \E i \in 1..Len(ticks) :
            /\ ticks[i].begin_ns = delivered[1]
            /\ ticks[i].end_ns = delivered[1]

\* No instance is ever active and no window is ever reported: _open_period
\* cannot construct a PeriodData.  C1, C2, C9, C11 and C12 speak of active
\* instances only, and have no reachable case.
NoInstanceIsEverActive == periods = {} /\ ticks = <<>> /\ state_cbs = {}

-----------------------------------------------------------------------------
(* Vocabulary of the claims on parse_period_arg and on the matcher *)

\* some node of the tree is an EventField or an EventName of the $begin context
RECURSIVE RefersToBegin(_)
RefersToBegin(expr) ==
    IF expr.type = "LogicalNot" THEN RefersToBegin(expr.expr)
    ELSE IF expr.type \in CompTypes \cup {"LogicalAnd"}
    THEN RefersToBegin(expr.lh_expr) \/ RefersToBegin(expr.rh_expr)
    ELSE expr.type \in {"EventField", "EventName"} /\ expr.is_begin

\* the comparisons of a clause of the parse results, without its delimiters
ComparisonsOf(res_conj_exprs) == SelectSeq(res_conj_exprs, LAMBDA r : ~r.is_str)

\* the argument of the parser has an end clause (and is accepted by the grammar)
HasEndClause == _period(parser.arg).has_end

\* the expression of the comparisons of a clause; exc is "ParseException"
\* when the grammar rejects the argument, "ValueError" when a number does not
\* convert
ClauseExpr(period_res, clause) ==
    IF period_res.exc # "none" THEN [exc |-> period_res.exc, expr |-> NoExpression]
    ELSE _parse_results_to_expression(ComparisonsOf(clause))
BeginClauseExpr == ClauseExpr(_period(parser.arg), _period(parser.arg).begin_expr)
EndClauseExpr == ClauseExpr(_period(parser.arg), _period(parser.arg).end_expr)

\* the matcher has evaluated its expression
Evaluated == matcher.matches # "unset"

\* the outcome of evaluating a sub-expression in the contexts of the matcher
Matches(expr) == expr_matches(expr, matcher.cur_context, matcher.begin_context)

\* the context an operand reads, and whether there is one
ContextOf(operand) ==
    IF operand.is_begin THEN matcher.begin_context ELSE matcher.cur_context
Resolves(operand) ==
    operand.type = "EventField" /\ ~ContextOf(operand).is_none

\* the value of a field operand in its context, NoneValue when absent
ValueOf(operand) ==
    LET ev == ContextOf(operand).cur_event
    IN  IF operand.name \in DOMAIN ev.fields THEN ev.fields[operand.name]
        ELSE NoneValue

IsLiteral(operand) == operand.type \in {"Number", "String"}

\* a comparison of a field with a literal or with another field, both fields
\* read from a context that exists
FieldComparison ==
    /\ Evaluated
    /\ matcher.expr.type \in CompTypes
    /\ Resolves(matcher.expr.lh_expr)
    /\ IsLiteral(matcher.expr.rh_expr) \/ Resolves(matcher.expr.rh_expr)

\* the value on the right of a FieldComparison
RhValue ==
    IF IsLiteral(matcher.expr.rh_expr) THEN matcher.expr.rh_expr.value
    ELSE ValueOf(matcher.expr.rh_expr)

-----------------------------------------------------------------------------
(* Claims on parse_period_arg (ParserSpec) *)

\* C13: when the begin expression built from the argument has a node, at any
\* depth, that is an EventField or an EventName with is_begin = true, its
\* begin-side validation fails with IllegalExpression, while end-side
\* validation accepts it; parse_period_arg never returns a definition whose
\* begin_expr refers to the $begin context.
C13_BeginSideRejectsBeginRefs ==
    parser.called =>
        /\ BeginClauseExpr.exc = "none" =>
             /\ RefersToBegin(BeginClauseExpr.expr) =>
                    ExpressionValidator(BeginClauseExpr.expr, TRUE) = "IllegalExpression"
             /\ ExpressionValidator(BeginClauseExpr.expr, FALSE) = "none"
        /\ parser.result.exc = "none" =>
             ~RefersToBegin(parser.result.def.begin_expr)

\* C14: an argument without end clause gives a definition whose end_expr is
\* its begin_expr; an argument with an end clause gives a definition whose
\* begin_expr is built from the comparisons of the begin clause and whose
\* end_expr is built from the comparisons of the end clause.
C14_ClausesBuildTheirOwnExpr ==
    parser.called =>
        /\ (parser.result.exc = "none" /\ ~HasEndClause) =>
             /\ parser.result.def.begin_expr = BeginClauseExpr.expr
             /\ parser.result.def.end_expr = parser.result.def.begin_expr
        /\ (/\ HasEndClause
             /\ BeginClauseExpr.exc = "none" /\ EndClauseExpr.exc = "none"
             /\ ExpressionValidator(BeginClauseExpr.expr, TRUE) = "none") =>
             /\ parser.result.exc = "none"
             /\ parser.result.def.begin_expr = BeginClauseExpr.expr
             /\ parser.result.def.end_expr = EndClauseExpr.expr

\* C15: parse_period_arg returns a definition or fails with
\* MalformedExpression or IllegalExpression; no other exception escapes.
C15_OnlyDeclaredFailures ==
    parser.called =>
        parser.result.exc \in {"none", "MalformedExpression", "IllegalExpression"}

-----------------------------------------------------------------------------
(* Claims on the matcher (MatcherSpec) *)

\* C16: a LogicalAnd matches iff both operands match, and when the left
\* operand does not match the result is 'no match' whatever the evaluation of
\* the right operand would do (it is not evaluated).
C16_AndShortCircuits ==
    (Evaluated /\ matcher.expr.type = "LogicalAnd") =>
        LET lh == Matches(matcher.expr.lh_expr)
            rh == Matches(matcher.expr.rh_expr)
        IN  /\ matcher.matches = "T" <=> (lh = "T" /\ rh = "T")
            /\ lh = "F" => matcher.matches = "F"

\* a conjunction whose left operand does not match and whose right operand
\* refers to $begin with no begin context has been evaluated to 'no match'
C16_Witness ==
    /\ Evaluated
    /\ matcher.expr.type = "LogicalAnd"
    /\ Matches(matcher.expr.lh_expr) = "F"
    /\ RefersToBegin(matcher.expr.rh_expr)
    /\ matcher.begin_context.is_none
    /\ Matches(matcher.expr.rh_expr) = "AssertionError"
    /\ matcher.matches = "F"

\* C17: a comparison in which a referenced field is absent from its event
\* yields false, for every operator, whether the right-hand side is a number
\* literal, a string literal or another field (both fields absent included).
C17_AbsentFieldYieldsFalse ==
    (/\ FieldComparison
     /\ \/ ValueOf(matcher.expr.lh_expr) = NoneValue
        \/ RhValue = NoneValue)
    => matcher.matches = "F"

\* C18: a LogicalNot matches iff its operand does not match (and does not
\* match iff its operand matches); `field != literal`, Not(Eq(field, literal)),
\* matches an event in which the field is absent.
C18_NotInverts ==
    (Evaluated /\ matcher.expr.type = "LogicalNot") =>
        LET operand == matcher.expr.expr
        IN  /\ matcher.matches = "T" <=> Matches(operand) = "F"
            /\ matcher.matches = "F" <=> Matches(operand) = "T"
            /\ (/\ operand.type = "Eq"
                 /\ Resolves(operand.lh_expr)
                 /\ IsLiteral(operand.rh_expr)
                 /\ ValueOf(operand.lh_expr) = NoneValue) =>
                 matcher.matches = "T"

\* `field != literal` has been evaluated on an event without the field
C18_Witness ==
    /\ Evaluated
    /\ matcher.expr.type = "LogicalNot"
    /\ matcher.expr.expr.type = "Eq"
    /\ Resolves(matcher.expr.expr.lh_expr)
    /\ IsLiteral(matcher.expr.expr.rh_expr)
    /\ ValueOf(matcher.expr.expr.lh_expr) = NoneValue
    /\ matcher.matches = "T"

\* C19: an integer field compared with a number literal is compared with the
\* literal truncated to an integer (a field equal to 3 matches `== 3.7` and
\* does not match `< 3.7`).
C19_FloatLiteralIsTruncated ==
    (/\ FieldComparison
     /\ matcher.expr.rh_expr.type = "Number"
     /\ ValueOf(matcher.expr.lh_expr).k = "int")
    => matcher.matches =
           compfn(matcher.expr.type, ValueOf(matcher.expr.lh_expr),
                  [k |-> "int", n |-> IntOfFloat(matcher.expr.rh_expr.value.n),
                   s |-> ""])

\* C20: a comparison whose two operand values are of different kinds
\* (integer, float, string) yields false, for every operator, for a field
\* against a literal (an integer field against a number literal excepted) and
\* for a field against a field.
C20_KindMismatchYieldsFalse ==
    (/\ FieldComparison
     /\ ValueOf(matcher.expr.lh_expr).k # "none"
     /\ RhValue.k # "none"
     /\ ValueOf(matcher.expr.lh_expr).k # RhValue.k
     /\ ~(ValueOf(matcher.expr.lh_expr).k = "int"
          /\ matcher.expr.rh_expr.type = "Number"))
    => matcher.matches = "F"

OrderingTypes == {"Lt", "LtEq", "Gt", "GtEq"}

\* C21: the ordering relations <, <=, >, >= applied to two string-valued
\* fields yield false, whatever the strings.
C21_StringOrderingYieldsFalse ==
    (/\ FieldComparison
     /\ matcher.expr.type \in OrderingTypes
     /\ matcher.expr.rh_expr.type = "EventField"
     /\ ValueOf(matcher.expr.lh_expr).k = "str"
     /\ RhValue.k = "str")
    => matcher.matches = "F"

\* `$evt.$name == "s"` or `$begin.$evt.$name == "s"`, the event named on the
\* left being there
NameComparison(expr) ==
    /\ expr.type = "Eq"
    /\ expr.lh_expr.type = "EventName"
    /\ expr.rh_expr.type = "String"
    /\ ~ContextOf(expr.lh_expr).is_none

\* C22: `$evt.$name == "s"` matches iff the name of the current event is s,
\* `$begin.$evt.$name == "s"` matches iff the name of the begin event of the
\* instance is s, and the `!=` forms match iff the `==` form does not.
C22_EventNameComparison ==
    Evaluated =>
        /\ NameComparison(matcher.expr) =>
             matcher.matches =
                 Bool(ContextOf(matcher.expr.lh_expr).cur_event.name
                      = matcher.expr.rh_expr.value.s)
        /\ (matcher.expr.type = "LogicalNot" /\ NameComparison(matcher.expr.expr)) =>
             /\ matcher.matches \in {"T", "F"}
             /\ matcher.matches = "T" <=> Matches(matcher.expr.expr) # "T"

\* `$begin.$evt.$name == "a"` has matched on a current event named b, the
\* begin event being named a
C22_Witness ==
    /\ Evaluated
    /\ matcher.expr = EqExpression(EventNameExpression(TRUE), StringExpression("a"))
    /\ ~matcher.begin_context.is_none
    /\ matcher.begin_context.cur_event.name = "a"
    /\ matcher.cur_context.cur_event.name = "b"
    /\ matcher.matches = "T"

\* C23: for an instance that has no begin context, evaluating an end
\* expression that refers to a $begin field or to the $begin event name
\* yields 'no match' and does not fail.
C23_NoBeginContextYieldsNoMatch ==
    (/\ Evaluated
     /\ matcher.begin_context.is_none
     /\ RefersToBegin(matcher.expr))
    => matcher.matches = "F"

\* the expressions of the definitions parse_period_arg returns for the
\* arguments of the model
ParsedExprs ==
    { parse_period_arg(arg).def.end_expr :
        arg \in { a \in Args : parse_period_arg(a).exc = "none" } }

\* C24: expression evaluation is total: for every expression returned by
\* parse_period_arg and every event, expr_matches returns true or false and
\* never raises.
C24_EvaluationIsTotal ==
    (Evaluated /\ matcher.expr \in ParsedExprs) => matcher.matches \in {"T", "F"}

-----------------------------------------------------------------------------
(* The analysis configured with the definition sys alone, on a stream of    *)
(* sched_switch and sched_wakeup events at the timestamps 10 and 20.        *)

SwitchFieldNames == {"prev_tid", "next_tid"}
Tids == {1, 2}
SysEvents ==
    [timestamp : {10, 20}, name : {"sched_switch", "sched_wakeup"},
     fields : [SwitchFieldNames -> { IntValue(tid) : tid \in Tids }]]

\* the event of a switch from prev_tid to next_tid
sched_switch(timestamp, prev_tid, next_tid) ==
    [timestamp |-> timestamp, name |-> "sched_switch",
     fields |-> [f \in SwitchFieldNames |->
                    IF f = "prev_tid" THEN IntValue(prev_tid) ELSE IntValue(next_tid)]]

SysInit ==
    /\ conf \in [refresh_period : {None}, begin_ts : {None}, end_ts : {None},
                 period_defs : {<<4>>}, period_begin_ev_name : {"absent", "None"}]
    /\ started = FALSE
    /\ ended = FALSE
    /\ last_event_ts = None
    /\ periods = {}
    /\ next_id = 1
    /\ ticks = <<>>
    /\ state_cbs = {}
    /\ exc = "none"
    /\ phase = "new"
    /\ begun = FALSE
    /\ first_event = NoEvent
    /\ delivered = <<>>
    /\ last_call = [op |-> "none", ev |-> NoEvent]
    /\ parser = NoParser
    /\ matcher = NoMatcher
    /\ sched = NoSched
    /\ cli = NoCli

SysNext ==
    \/ \E ev \in SysEvents : BeginAnalysis(ev)
    \/ \E ev \in SysEvents : ProcessEvent(ev)
    \/ EndAnalysis

SysSpec == SysInit /\ [][SysNext]_vars

\* C26: with the definition sys, a sched_switch from tid 1 to tid 2 at ts 10
\* opens an instance, the sched_switch from 2 back to 1 at ts 20 closes that
\* instance with the window [10, 20], and a sched_switch at ts 20 whose
\* next_tid is not 1 does not close it.
C26_SysExample ==
    [][ (ProcessStep /\ conf.period_defs = <<4>>)
        => LET ev == last_call'.ev
               opening == sched_switch(10, 1, 2)
           IN  /\ (ev = opening /\ periods = {}) =>
                     \E p \in periods' : /\ p.period_start_ts = 10
                                         /\ p.begin_context = MatchContext(ev)
               /\ \A p \in periods :
                     (/\ p.period_start_ts = 10
                      /\ p.begin_context = MatchContext(opening)
                      /\ ev.timestamp = 20
                      /\ ev.name = "sched_switch") =>
                         IF ev.fields["next_tid"] = IntValue(1)
                         THEN /\ p \notin periods'
                              /\ \E i \in 1..Len(ticks') :
                                    ticks'[i] = [begin_ns |-> 10, end_ns |-> 20,
                                                 period |-> p.id]
                         ELSE p \in periods' ]_vars

-----------------------------------------------------------------------------
(* The handlers of SchedAnalysis on their own: the state layer sends a      *)
(* period, reset by SchedAnalysis.reset, a sequence of notifications.       *)

MaxNotifications == 2

\* AnalysisConfig with its filters
SchedConfigs ==
    [refresh_period : {None}, begin_ts : {None}, end_ts : {None},
     period_defs : {<<>>}, period_begin_ev_name : {"None"},
     min_duration : {None, 1}, max_duration : {None, 2},
     proc_list : {NoList, List({"a"})},
     tid_list : {List({}), List({1})},
     cpu_list : {NoList, List({0})}]

\* the processes that are switched in, and the process that woke them up:
\* none, or another process, which for the wakee 1 is one that is also
\* switched in
Wakees ==
    { Process(1, "a", 0, last_wakeup) : last_wakeup \in {None, 0, 2} }
    \cup { Process(2, "b", 0, last_wakeup) : last_wakeup \in {None, 0, 2} }
Wakers(wakee_proc) ==
    { NoProcess,
      IF wakee_proc.tid = 1 THEN Process(2, "b", 1, None)
      ELSE Process(3, "c", 1, None) }

\* sched_switch_per_tid: next_tid is the tid of the wakee
SchedSwitchKwargs ==
    UNION { { [cpu_id |-> cpu_id, timestamp |-> timestamp,
               wakee_proc |-> wakee_proc, waker_proc |-> waker_proc,
               next_tid |-> wakee_proc.tid] :
                cpu_id \in {0, 1}, timestamp \in {2, 3},
                waker_proc \in Wakers(wakee_proc) } :
            wakee_proc \in Wakees }

PrioChangedKwargs == [timestamp : {3}, prio : {5}, tid : {1, 2, 3}]

SchedInit ==
    /\ conf \in SchedConfigs
    /\ started = FALSE
    /\ ended = FALSE
    /\ last_event_ts = None
    /\ periods = {}
    /\ next_id = 1
    /\ ticks = <<>>
    /\ state_cbs = {}
    /\ exc = "none"
    /\ phase = "new"
    /\ begun = FALSE
    /\ first_event = NoEvent
    /\ delivered = <<>>
    /\ last_call = [op |-> "none", ev |-> NoEvent]
    /\ parser = NoParser
    /\ matcher = NoMatcher
    /\ sched = [NoSched EXCEPT !.period = reset_period(PeriodData(<<0>>).obj),
                               !.before = reset_period(PeriodData(<<0>>).obj)]
    /\ cli = NoCli

Notify(name, kwargs, period) ==
    /\ sched' = [period |-> period, before |-> sched.period,
                 notification |-> [name |-> name, kwargs |-> kwargs],
                 calls |-> sched.calls + 1]
    /\ UNCHANGED <<conf, started, ended, last_event_ts, periods, next_id, ticks,
                   state_cbs, exc, phase, begun, first_event, delivered,
                   last_call, parser, matcher, cli>>

SchedSwitchPerTid(kwargs) ==
    /\ sched.calls < MaxNotifications
    /\ Notify("sched_switch_per_tid", kwargs,
              _process_sched_switch(sched.period, kwargs))

PrioChanged(kwargs) ==
    /\ sched.calls < MaxNotifications
    /\ Notify("prio_changed", kwargs, _process_prio_changed(sched.period, kwargs))

SchedNext ==
    \/ \E kwargs \in SchedSwitchKwargs : SchedSwitchPerTid(kwargs)
    \/ \E kwargs \in PrioChangedKwargs : PrioChanged(kwargs)

SchedSpec == SchedInit /\ [][SchedNext]_vars

-----------------------------------------------------------------------------
(* Vocabulary of the claims on the handlers of SchedAnalysis *)

SwitchNotified == sched.notification.name = "sched_switch_per_tid"
PrioNotified == sched.notification.name = "prio_changed"

\* the latency of the switch the period has been notified of
Latency ==
    sched.notification.kwargs.timestamp
    - sched.notification.kwargs.wakee_proc.last_wakeup

\* x passes a filter list: the list is unset (None or empty) or holds x
PassesList(l, x) == l.is_none \/ l.items = {} \/ x \in l.items

\* the wakee and the CPU of the notification pass the filters, and the wakee
\* has a last wakeup timestamp
PassesFilters ==
    /\ PassesList(conf.proc_list, sched.notification.kwargs.wakee_proc.comm)
    /\ PassesList(conf.tid_list, sched.notification.kwargs.wakee_proc.tid)
    /\ PassesList(conf.cpu_list, sched.notification.kwargs.cpu_id)
    /\ sched.notification.kwargs.wakee_proc.last_wakeup # None

WithinBounds ==
    /\ conf.min_duration = None \/ Latency >= conf.min_duration
    /\ conf.max_duration = None \/ Latency <= conf.max_duration

\* the notification has added one sample to the period
Credited == Len(sched.period.sched_list) = Len(sched.before.sched_list) + 1

\* SchedAnalysis.count
count(period) == Len(period.sched_list)

Latencies(g) == [i \in 1..Len(g.sched_list) |-> g.sched_list[i].latency]

RECURSIVE Sum(_)
Sum(seq) == IF seq = <<>> THEN 0 ELSE Head(seq) + Sum(Tail(seq))

\* the invariants of an aggregator (a period or the statistics of a tid)
AggregatorOk(g) ==
    /\ g.total_latency = Sum(Latencies(g))
    /\ count(g) = 0 =>
         g.min_latency = None /\ g.max_latency = None /\ g.total_latency = 0
    /\ count(g) > 0 =>
         /\ \E i \in 1..count(g) : g.min_latency = Latencies(g)[i]
         /\ \A i \in 1..count(g) : g.min_latency <= Latencies(g)[i]
         /\ \E i \in 1..count(g) : g.max_latency = Latencies(g)[i]
         /\ \A i \in 1..count(g) : g.max_latency >= Latencies(g)[i]
         /\ g.min_latency * count(g) <= g.total_latency
         /\ g.total_latency <= g.max_latency * count(g)

-----------------------------------------------------------------------------
(* Claims on the handlers of SchedAnalysis (SchedSpec) *)

\* C27: a sched_switch_per_tid notification is credited to the period as one
\* sample with latency = switch timestamp - wakee.last_wakeup iff the wakee
\* passes the process-name and tid filters, the CPU passes the CPU filter,
\* the wakee has a last wakeup timestamp and the latency is within the
\* min/max bounds; an absent process passes the process filter and an unset
\* filter list passes everything.
C27_SwitchCreditedIffFiltersPass ==
    SwitchNotified =>
        /\ Credited <=> (PassesFilters /\ WithinBounds)
        /\ Credited =>
             /\ sched.period.sched_list[count(sched.period)].latency = Latency
             /\ SubSeq(sched.period.sched_list, 1, count(sched.before))
                = sched.before.sched_list
        /\ ~Credited => sched.period.sched_list = sched.before.sched_list
        /\ _filter_process(NoProcess)

\* a switch has been credited with the three filter lists and the two
\* bounds set
C27_Witness ==
    /\ SwitchNotified
    /\ Credited
    /\ conf.proc_list = List({"a"})
    /\ conf.tid_list = List({1})
    /\ conf.cpu_list = List({0})
    /\ conf.min_duration # None
    /\ conf.max_duration # None

\* C28: the min/max duration filter is a closed interval: a latency equal to
\* min_duration or to max_duration is kept, a latency below min_duration or
\* above max_duration is dropped, and a bound that is None filters nothing on
\* its side.
C28_DurationFilterIsClosed ==
    (SwitchNotified /\ PassesFilters) =>
        /\ (conf.min_duration # None /\ Latency < conf.min_duration) => ~Credited
        /\ (conf.max_duration # None /\ Latency > conf.max_duration) => ~Credited
        /\ (/\ conf.min_duration # None /\ Latency = conf.min_duration
            /\ conf.max_duration = None \/ Latency <= conf.max_duration) => Credited
        /\ (/\ conf.max_duration # None /\ Latency = conf.max_duration
            /\ conf.min_duration = None \/ Latency >= conf.min_duration) => Credited
        /\ (/\ conf.min_duration = None
            /\ conf.max_duration = None \/ Latency <= conf.max_duration) => Credited
        /\ (/\ conf.max_duration = None
            /\ conf.min_duration = None \/ Latency >= conf.min_duration) => Credited

\* a sample whose latency is min_duration has been kept, max_duration being
\* set as well
C28_Witness ==
    /\ SwitchNotified
    /\ PassesFilters
    /\ conf.min_duration # None
    /\ conf.max_duration # None
    /\ Latency = conf.min_duration
    /\ Credited

\* the priority history of a tid in a period, empty when the period has no
\* statistics for the tid
PrioHistory(period, tid) ==
    IF tid \in DOMAIN period.tids THEN period.tids[tid].prio_list ELSE <<>>

\* the entry of the prio_changed notification
PrioEntry ==
    [timestamp |-> sched.notification.kwargs.timestamp,
     prio |-> sched.notification.kwargs.prio]

\* C29, as stated: a prio_changed(tid, ts, prio) notification appends
\* (ts, prio) to the priority history of that tid in the period.
C29_PrioChangedAppends ==
    PrioNotified =>
        PrioHistory(sched.period, sched.notification.kwargs.tid)
        = Append(PrioHistory(sched.before, sched.notification.kwargs.tid), PrioEntry)

\* C29, amended: a prio_changed(tid, ts, prio) notification appends (ts, prio)
\* to the priority history of that tid in the period when the period already
\* has statistics for the tid, and leaves the period as it is otherwise.
C29_PrioChangedAppendsForKnownTid ==
    PrioNotified =>
        IF sched.notification.kwargs.tid \in DOMAIN sched.before.tids
        THEN sched.period =
                 [sched.before EXCEPT !.tids[sched.notification.kwargs.tid].prio_list =
                                          Append(@, PrioEntry)]
        ELSE sched.period = sched.before

\* a prio_changed has been appended to the history of a tid the period has
\* statistics for
C29_Witness ==
    /\ PrioNotified
    /\ sched.notification.kwargs.tid \in DOMAIN sched.before.tids
    /\ Len(PrioHistory(sched.period, sched.notification.kwargs.tid)) = 2
    /\ PrioHistory(sched.period, sched.notification.kwargs.tid)[2] = PrioEntry

\* C30: after any sequence of accepted samples the aggregator of the period
\* and the one of each tid satisfy: count is the number of stored samples,
\* total_latency is the sum of the stored latencies, min_latency and
\* max_latency are their minimum and maximum, min <= total/count <= max when
\* count > 0, and min and max are unset and total is 0 when count = 0.
C30_AggregatorInvariants ==
    /\ AggregatorOk(sched.period)
    /\ \A tid \in DOMAIN sched.period.tids : AggregatorOk(sched.period.tids[tid])

\* the period holds two samples of different latencies, the larger first
C30_Witness ==
    /\ count(sched.period) = 2
    /\ sched.period.sched_list[1].latency > sched.period.sched_list[2].latency
    /\ \E tid \in DOMAIN sched.period.tids : count(sched.period.tids[tid]) = 0

\* C37: a sched_switch_per_tid notification that is rejected (a filter does
\* not pass, the wakee has no last wakeup timestamp or the latency is out of
\* the bounds) leaves the period as it was: no statistics are created for the
\* wakee or the waker, and the list, total, min and max are unchanged; a
\* prio_changed for a tid the period has no statistics for changes nothing.
C37_RejectedNotificationChangesNothing ==
    /\ (SwitchNotified /\ ~(PassesFilters /\ WithinBounds)) =>
           sched.period = sched.before
    /\ (PrioNotified /\ sched.notification.kwargs.tid \notin DOMAIN sched.before.tids) =>
           sched.period = sched.before

\* a switch with a waker the period does not know has been rejected on its
\* latency alone, after a sample had been accepted
C37_Witness ==
    /\ SwitchNotified
    /\ PassesFilters
    /\ ~WithinBounds
    /\ count(sched.before) = 1
    /\ ~sched.notification.kwargs.waker_proc.is_none
    /\ sched.notification.kwargs.waker_proc.tid \notin DOMAIN sched.before.tids

\* the samples of a tid in a period, none when the period has no statistics
\* for the tid
Samples(period, tid) ==
    IF tid \in DOMAIN period.tids THEN period.tids[tid].sched_list ELSE <<>>

\* the sum of the counts and of the total latencies over the statistics of
\* the tids in S
RECURSIVE SumOfCounts(_, _)
SumOfCounts(period, S) ==
    IF S = {} THEN 0
    ELSE LET tid == CHOOSE t \in S : TRUE
         IN  count(period.tids[tid]) + SumOfCounts(period, S \ {tid})

RECURSIVE SumOfTotals(_, _)
SumOfTotals(period, S) ==
    IF S = {} THEN 0
    ELSE LET tid == CHOOSE t \in S : TRUE
         IN  period.tids[tid].total_latency + SumOfTotals(period, S \ {tid})

\* the sample of the switch the period has been notified of
NotifiedSample ==
    SchedEvent(sched.notification.kwargs.wakee_proc.last_wakeup,
               sched.notification.kwargs.timestamp,
               sched.notification.kwargs.wakee_proc,
               sched.notification.kwargs.waker_proc,
               sched.notification.kwargs.cpu_id)

\* C38: an accepted sched_switch_per_tid adds exactly one sample to the list
\* of the period and exactly one to the statistics keyed by next_tid, and
\* none to the statistics of the waker (a waker other than next_tid), which
\* are only created, with its initial priority, when absent; the count of
\* the period is the sum of the counts of the tids and its total_latency the
\* sum of their totals.
C38_AcceptedSwitchAddsOneSample ==
    /\ count(sched.period) = SumOfCounts(sched.period, DOMAIN sched.period.tids)
    /\ sched.period.total_latency
       = SumOfTotals(sched.period, DOMAIN sched.period.tids)
    /\ (SwitchNotified /\ PassesFilters /\ WithinBounds) =>
         LET kwargs == sched.notification.kwargs
             waker == kwargs.waker_proc
             others == IF waker.is_none THEN {} ELSE {waker.tid}
         IN  /\ sched.period.sched_list
                = Append(sched.before.sched_list, NotifiedSample)
             /\ DOMAIN sched.period.tids
                = DOMAIN sched.before.tids \cup {kwargs.next_tid} \cup others
             /\ Samples(sched.period, kwargs.next_tid)
                = Append(Samples(sched.before, kwargs.next_tid), NotifiedSample)
             /\ \A tid \in DOMAIN sched.period.tids \ {kwargs.next_tid} :
                    /\ Samples(sched.period, tid) = Samples(sched.before, tid)
                    /\ tid \in DOMAIN sched.before.tids =>
                           sched.period.tids[tid] = sched.before.tids[tid]
                    /\ tid \notin DOMAIN sched.before.tids =>
                           sched.period.tids[tid]
                           = update_prio(new_from_process(waker),
                                         kwargs.timestamp, waker.prio)

\* a switch has been accepted whose waker already had statistics with one
\* sample in the period
C38_Witness ==
    /\ SwitchNotified
    /\ PassesFilters
    /\ WithinBounds
    /\ ~sched.notification.kwargs.waker_proc.is_none
    /\ sched.notification.kwargs.waker_proc.tid # sched.notification.kwargs.next_tid
    /\ Len(Samples(sched.before, sched.notification.kwargs.waker_proc.tid)) = 1
    /\ count(sched.period) = 2

-----------------------------------------------------------------------------
(* Claims on the dispatcher (Spec), continued *)

\* C36: an event that the dispatcher drops, because the analysis has ended or
\* because it has not started yet (timestamp < begin_ts), leaves
\* last_event_ts unchanged.
C36_DroppedEventKeepsLastEventTs ==
    [][ (ProcessStep /\ exc' = "none" /\ (ended' \/ ~started'))
        => last_event_ts' = last_event_ts ]_vars

-----------------------------------------------------------------------------
(* The result tables of the irq command: the command is told the end of     *)
(* each period (_analysis_tick) with the statistics the analysis holds for  *)
(* it, and builds the summary once the analysis has ended.                  *)

MaxTicks == 2

\* the arguments after _validate_transform_args: a filter list is None or
\* the strings between the commas of --irq or --softirq
IrqArgs ==
    [stats : BOOLEAN, freq : BOOLEAN, log : BOOLEAN, freq_resolution : {2},
     irq_filter_list : {NoList, List({"42", "43"})},
     softirq_filter_list : {NoList, List({"1"})}]

\* the hard interrupts 42, 43 and 44 and the soft interrupt 1 of a period
HardIrqLists(id) ==
    IF id = 42
    THEN {<<>>, <<HardIRQ(42, 100, 1300)>>,
          <<HardIRQ(42, 100, 1200), HardIRQ(42, 100, 1300),
            HardIRQ(42, 100, 1400)>>}
    ELSE IF id = 43 THEN {<<>>, <<HardIRQ(43, 100, 1300)>>}
    ELSE {<<HardIRQ(44, 100, 1300)>>}
SoftIrqLists ==
    { <<>>, <<SoftIRQ(1, 50, 100, 1200), SoftIRQ(1, None, 100, 1400)>> }

RECURSIVE Concat(_, _)
Concat(lists, ids) ==
    IF ids = <<>> THEN <<>> ELSE lists[Head(ids)] \o Concat(lists, Tail(ids))

\* the analysis at the end of a period: the statistics of each interrupt that
\* was seen, and the list of all the interrupts
PeriodAnalysis(hard, soft) ==
    [hard_irq_stats |->
         [id \in DOMAIN hard |->
             IrqStats(IF id = 42 THEN "eth0" ELSE "irq", hard[id])],
     softirq_stats |-> [id \in DOMAIN soft |-> IrqStats("TIMER", soft[id])],
     irq_list |-> Concat(hard, sorted(DOMAIN hard)) \o Concat(soft, sorted(DOMAIN soft))]

PeriodAnalyses ==
    { PeriodAnalysis(hard, soft) :
        hard \in {<<>>} \cup { l \in [{42, 43, 44} -> UNION {HardIrqLists(id) : id \in {42, 43, 44}}] :
                                  \A id \in {42, 43, 44} : l[id] \in HardIrqLists(id) },
        soft \in {<<>>} \cup { [id \in {1} |-> l] : l \in SoftIrqLists \ {<<>>} } }

IrqInit ==
    /\ conf \in {c \in Configs : c.refresh_period = None /\ c.begin_ts = None
                                /\ c.end_ts = None /\ c.period_defs = <<>>
                                /\ c.period_begin_ev_name = "None"}
    /\ started = FALSE
    /\ ended = FALSE
    /\ last_event_ts = None
    /\ periods = {}
    /\ next_id = 1
    /\ ticks = <<>>
    /\ state_cbs = {}
    /\ exc = "none"
    /\ phase = "new"
    /\ begun = FALSE
    /\ first_event = NoEvent
    /\ delivered = <<>>
    /\ last_call = [op |-> "none", ev |-> NoEvent]
    /\ parser = NoParser
    /\ matcher = NoMatcher
    /\ sched = NoSched
    /\ \E args \in IrqArgs, mi_mode \in BOOLEAN :
           cli = [NoCli EXCEPT !.args = args, !.mi_mode = mi_mode]

Called(self, op) ==
    /\ cli' = [self EXCEPT !.op = op]
    /\ UNCHANGED <<conf, started, ended, last_event_ts, periods, next_id, ticks,
                   state_cbs, exc, phase, begun, first_event, delivered,
                   last_call, parser, matcher, sched>>

\* the end of a period: the k-th period is [10k, 10k + 10]
AnalysisTick(analysis) ==
    /\ cli.op \in {"none", "_analysis_tick"}
    /\ cli.exc = "none"
    /\ cli.ticks < MaxTicks
    /\ Called(_analysis_tick([cli EXCEPT !.analysis = analysis,
                                         !.ticks = @ + 1],
                             10 * cli.ticks, 10 * cli.ticks + 10),
              "_analysis_tick")

\* the end of the analysis, in MI mode
CreateSummary ==
    /\ cli.op \in {"none", "_analysis_tick"}
    /\ cli.exc = "none"
    /\ cli.mi_mode
    /\ Called(_create_summary_result_tables(cli), "_create_summary_result_tables")

IrqNext ==
    \/ \E analysis \in PeriodAnalyses : AnalysisTick(analysis)
    \/ CreateSummary

IrqSpec == IrqInit /\ [][IrqNext]_vars

-----------------------------------------------------------------------------
(* _fill_freq_result_table on its own: the statistics of one interrupt and  *)
(* a resolution.                                                            *)

MaxSamples == 3
MaxResolution == 3

\* the durations, in ns, of the interrupts of the histogram
FreqDurations == {1100, 1200, 1300}

\* the lists of one to MaxSamples completed interrupts 42
FreqIrqLists ==
    UNION { [1..n -> {HardIRQ(42, 100, 100 + d) : d \in FreqDurations}] :
              n \in 1..MaxSamples }

FreqInit ==
    /\ conf \in {c \in Configs : c.refresh_period = None /\ c.begin_ts = None
                                 /\ c.end_ts = None /\ c.period_defs = <<>>
                                 /\ c.period_begin_ev_name = "None"}
    /\ started = FALSE
    /\ ended = FALSE
    /\ last_event_ts = None
    /\ periods = {}
    /\ next_id = 1
    /\ ticks = <<>>
    /\ state_cbs = {}
    /\ exc = "none"
    /\ phase = "new"
    /\ begun = FALSE
    /\ first_event = NoEvent
    /\ delivered = <<>>
    /\ last_call = [op |-> "none", ev |-> NoEvent]
    /\ parser = NoParser
    /\ matcher = NoMatcher
    /\ sched = NoSched
    /\ \E resolution \in 1..MaxResolution, irq_list \in FreqIrqLists :
           cli = [NoCli EXCEPT
                     !.args.freq = TRUE,
                     !.args.freq_resolution = resolution,
                     !.analysis = PeriodAnalysis([id \in {42} |-> irq_list], <<>>)]

FillFreqResultTable ==
    /\ cli.op = "none"
    /\ Called([cli EXCEPT !.tables.freq_tables =
                  << _fill_freq_result_table(
                         cli.analysis.hard_irq_stats[42],
                         _mi_create_result_table("freq", 0, 10, "eth0 (42)"),
                         cli.args.freq_resolution) >>],
              "_fill_freq_result_table")

FreqNext == FillFreqResultTable

FreqSpec == FreqInit /\ [][FreqNext]_vars

-----------------------------------------------------------------------------
(* Claims on the result tables of the irq command *)

\* min(floor((x - min) / step), N - 1) with step = (max - min) / N
FloorIndex(x, min_duration, max_duration, N) ==
    IF ((x - min_duration) * N) \div (max_duration - min_duration) < N - 1
    THEN ((x - min_duration) * N) \div (max_duration - min_duration)
    ELSE N - 1

\* the rows of table are the histogram of the samples of g over N bins, each
\* sample in the bin of its FloorIndex
IsHistogram(table, g, N) ==
    /\ Len(table.rows) = N
    /\ \A i \in 1..N :
          table.rows[i].count
          = Cardinality({ k \in 1..Len(g.irq_list) :
                FloorIndex(Duration(g.irq_list[k]), g.min_duration,
                           g.max_duration, N) = i - 1 })
    /\ Sum([i \in 1..Len(table.rows) |-> table.rows[i].count]) = g.count

\* C31: for an IRQ aggregator with min duration < max duration and
\* resolution N >= 1 the frequency table has exactly N rows, each sample is
\* counted in exactly one bin, of index min(floor((x - min)/step), N - 1),
\* and the bin counts sum to the count of the aggregator; when min duration
\* = max duration the frequency table has no rows.
C31_FreqTableIsHistogram ==
    cli.op = "_fill_freq_result_table" =>
        IF cli.analysis.hard_irq_stats[42].min_duration
           = cli.analysis.hard_irq_stats[42].max_duration
        THEN cli.tables.freq_tables[1].rows = <<>>
        ELSE IsHistogram(cli.tables.freq_tables[1],
                         cli.analysis.hard_irq_stats[42],
                         cli.args.freq_resolution)

\* the last call was a tick that returned
Ticked == cli.op = "_analysis_tick" /\ cli.exc = "none"

\* the interrupt numbers of the rows of the last stats table that are hard
\* (is_hard) or soft interrupts, in the order of the rows
RowNumbers(is_hard) ==
    [i \in 1..Len(SelectSeq(cli.tables.stats_table.rows,
                            LAMBDA r : r.irq.is_hard = is_hard)) |->
        SelectSeq(cli.tables.stats_table.rows,
                  LAMBDA r : r.irq.is_hard = is_hard)[i].irq.nr]

\* the ids of analysis_stats with count > 0 that filter_list lets through
\* (every id when there is no list)
Listed(analysis_stats, filter_list) ==
    { id \in DOMAIN analysis_stats :
        /\ analysis_stats[id].count > 0
        /\ filter_list.is_none \/ IntStr(id) \in filter_list.items }

\* C32: with an IRQ filter list the stats table has a row only for the ids
\* of the list with count > 0, in ascending id order, and an id outside the
\* list never appears (--irq 42,43 with IRQs 42, 43, 44 gives rows 42 then
\* 43); with only a hard-IRQ filter there is no soft-IRQ row and conversely,
\* and with no filter both kinds are produced.
C32_FilterListSelectsStatsRows ==
    (Ticked /\ cli.args.stats) =>
        /\ RowNumbers(TRUE) =
              IF cli.args.irq_filter_list.is_none
                 /\ ~cli.args.softirq_filter_list.is_none
              THEN <<>>
              ELSE sorted(Listed(cli.analysis.hard_irq_stats,
                                 cli.args.irq_filter_list))
        /\ RowNumbers(FALSE) =
              IF cli.args.softirq_filter_list.is_none
                 /\ ~cli.args.irq_filter_list.is_none
              THEN <<>>
              ELSE sorted(Listed(cli.analysis.softirq_stats,
                                 cli.args.softirq_filter_list))

\* --irq 42,43 and no --softirq, a period with the interrupts 42, 43, 44 and
\* the soft interrupt 1: the rows are 42 then 43
C32_Witness ==
    /\ Ticked
    /\ cli.args.stats
    /\ cli.args.irq_filter_list = List({"42", "43"})
    /\ cli.args.softirq_filter_list.is_none
    /\ DOMAIN cli.analysis.hard_irq_stats = {42, 43, 44}
    /\ \A id \in {42, 43, 44} : cli.analysis.hard_irq_stats[id].count > 0
    /\ 1 \in DOMAIN cli.analysis.softirq_stats
    /\ RowNumbers(TRUE) = <<42, 43>>
    /\ Len(cli.tables.stats_table.rows) = 2

\* C33: on an empty event stream (no period was closed, hence no stats
\* table) building the summary succeeds and yields a summary table with zero
\* rows and no other table; a tick whose statistics are empty does not fail.
C33_EmptyStreamSummary ==
    /\ (cli.op = "_create_summary_result_tables" /\ cli.ticks = 0) =>
          /\ cli.exc = "none"
          /\ Len(cli.result_tables) = 1
          /\ cli.result_tables[1].table_class = "summary"
          /\ cli.result_tables[1].rows = <<>>
    /\ (cli.op = "_analysis_tick" /\ cli.analysis = NoAnalysis) =>
          cli.exc = "none"

\* C34: the summary table has one row per stats table of a closed period,
\* with the time range of the period and the sum of the counts of the rows
\* of its stats table.
C34_SummaryRowPerStatsTable ==
    [][ (/\ cli'.op = "_create_summary_result_tables"
         /\ cli'.exc = "none"
         /\ cli.args.stats)
        => /\ Len(cli'.result_tables[1].rows)
              = Len(_mi_get_result_tables(cli.result_tables, "stats"))
           /\ \A i \in 1..Len(_mi_get_result_tables(cli.result_tables, "stats")) :
                 cli'.result_tables[1].rows[i] =
                    [time_range |->
                         _mi_get_result_tables(cli.result_tables, "stats")[i].timerange,
                     count |->
                         Sum([k \in 1..Len(_mi_get_result_tables(cli.result_tables,
                                                                 "stats")[i].rows) |->
                                _mi_get_result_tables(cli.result_tables,
                                                      "stats")[i].rows[k].count])]
      ]_vars

====
